---- MODULE Spec2Model ----
(***************************************************************************)
(* Model of the repository analysis engine of zen_pipeline                 *)
(* (backend/app/services/code_reviewer.py) and of the request layer that   *)
(* calls it (backend/app/api/v1/endpoints/github_review.py).               *)
(*                                                                         *)
(* Text is modelled at the level of tokens: a line is a sequence of        *)
(* tokens, a token is the string of its characters, and a file's content   *)
(* is a sequence of tokens in which "\n" is the newline.  The regular      *)
(* expressions of the pattern catalogs are sequences of items matched      *)
(* against the tokens of a line by search, as re.search does.              *)
(***************************************************************************)
EXTENDS Integers, Sequences, FiniteSets, TLC

None == "None"

Max(a, b) == IF a >= b THEN a ELSE b
Min(a, b) == IF a <= b THEN a ELSE b

Range(s) == {s[i] : i \in 1..Len(s)}

\* sum(s), the halves summed apart so that long sequences stay shallow
RECURSIVE SumSeq(_)
SumSeq(s) ==
    IF s = <<>> THEN 0
    ELSE IF Len(s) = 1 THEN s[1]
    ELSE SumSeq(SubSeq(s, 1, Len(s) \div 2)) + SumSeq(SubSeq(s, Len(s) \div 2 + 1, Len(s)))

\* the sequences of ss, one after the other
RECURSIVE Flatten(_)
Flatten(ss) ==
    IF ss = <<>> THEN <<>>
    ELSE IF Len(ss) = 1 THEN ss[1]
    ELSE Flatten(SubSeq(ss, 1, Len(ss) \div 2))
           \o Flatten(SubSeq(ss, Len(ss) \div 2 + 1, Len(ss)))

RECURSIVE Repeat(_, _)
Repeat(s, n) == IF n <= 0 THEN <<>> ELSE s \o Repeat(s, n - 1)

-----------------------------------------------------------------------------
(* Tokens.                                                                 *)

NL == "\n"
SP == " "
IND == "    "
WS == {SP, IND}

\* a run of 121 characters without blanks, quotes or word breaks
A10 == "aaaaaaaaaa"
A40 == A10 \o A10 \o A10 \o A10
LONG == A40 \o A40 \o A40 \o "a"

\* the three backquotes that open or close a code block, as one token
FENCE == "<fence>"

\* string literals, quotes included
StrLits == {"'ab'", "'hunter2'", "'abcdef1234'"}
Punct == {"(", ")", ":", "=", "+", ",", "{", "}", "#", "//", "/*", "*/", "/**",
          "*", ";", "=>", "\"\"\"", "'''", ".", "?", "&&", "||", "==", "!."}
NonWord == WS \cup Punct \cup StrLits

\* str.lower() of a token (re.IGNORECASE compares case-folded text)
Lower(t) ==
    CASE t = "DEBUG" -> "debug"
      [] t = "True" -> "true"
      [] t = "False" -> "false"
      [] t = "TODO" -> "todo"
      [] t = "OS.SYSTEM" -> "os.system"
      [] t = "Installation" -> "installation"
      [] t = "Usage" -> "usage"
      [] t = "License" -> "license"
      [] t = "Node_Modules" -> "node_modules"
      [] OTHER -> t

\* <<t, l>>: the lower-cased token t holds the literal l inside it
Infix == {<<"debug", "bug">>, <<"medieval", "eval">>, <<"/**", "/*">>,
          <<"installation", "install">>, <<"rebuild", "build">>, <<"test_app", "test_">>,
          <<".github", ".git">>}

Has(l) == {l} \cup {p[1] : p \in {q \in Infix : q[2] = l}}

\* number of characters of a token sequence
RECURSIVE CharLen(_)
CharLen(toks) ==
    IF toks = <<>> THEN 0
    ELSE (IF Head(toks) = FENCE THEN 3 ELSE Len(Head(toks))) + CharLen(Tail(toks))

-----------------------------------------------------------------------------
(* Regular expressions over tokens.  An item consumes one token (one),     *)
(* any number of tokens (star), an optional group (opt), or nothing (bol,  *)
(* eol, wb: a word boundary, nla: a negative lookahead).                   *)

One(S) == [k |-> "one", s |-> S, neg |-> FALSE]
OneNot(S) == [k |-> "one", s |-> S, neg |-> TRUE]
Star(S) == [k |-> "star", s |-> S, neg |-> FALSE]
StarNot(S) == [k |-> "star", s |-> S, neg |-> TRUE]
Lit(l) == One(Has(l))
AnyTok == OneNot({})
Bol == [k |-> "bol"]
Eol == [k |-> "eol"]
Wb == [k |-> "wb"]
NotAhead(p) == [k |-> "nla", p |-> p]
Opt(p) == [k |-> "opt", p |-> p]
Sp0 == Star(WS)

IsWordEdge(line, j) == j >= 1 /\ j <= Len(line) /\ line[j] \notin NonWord

RECURSIVE MatchAt(_, _, _, _)
MatchAt(p, i, line, j) ==
    IF i > Len(p) THEN TRUE
    ELSE LET it == p[i] IN
      CASE it.k = "one" ->
             /\ j <= Len(line)
             /\ (line[j] \in it.s) # it.neg
             /\ MatchAt(p, i + 1, line, j + 1)
        [] it.k = "star" ->
             \/ MatchAt(p, i + 1, line, j)
             \/ /\ j <= Len(line)
                /\ (line[j] \in it.s) # it.neg
                /\ MatchAt(p, i, line, j + 1)
        [] it.k = "bol" -> j = 1 /\ MatchAt(p, i + 1, line, j)
        [] it.k = "eol" -> j = Len(line) + 1 /\ MatchAt(p, i + 1, line, j)
        [] it.k = "wb" ->
             /\ IsWordEdge(line, j - 1) # IsWordEdge(line, j)
             /\ MatchAt(p, i + 1, line, j)
        [] it.k = "opt" ->
             \/ MatchAt(p, i + 1, line, j)
             \/ MatchAt(it.p \o SubSeq(p, i + 1, Len(p)), 1, line, j)
        [] it.k = "nla" ->
             /\ ~MatchAt(it.p, 1, line, j)
             /\ MatchAt(p, i + 1, line, j)

\* re.search(pattern, line): pattern is a set of alternatives
Search(alts, line) ==
    \E p \in alts : \E j \in 1..(Len(line) + 1) : MatchAt(p, 1, line, j)

\* re.search(pattern, line, re.IGNORECASE)
SearchI(alts, line) == Search(alts, [i \in 1..Len(line) |-> Lower(line[i])])

\* re.match(pattern, line)
Match(alts, line) == \E p \in alts : MatchAt(p, 1, line, 1)

-----------------------------------------------------------------------------
(* The pattern catalogs: (pattern, title, severity) in the order of the    *)
(* source.  Literals are lower-cased: the search is case-insensitive.      *)

Pat(re, title, severity) == [re |-> re, title |-> title, severity |-> severity]

Call(l) == <<Lit(l), Sp0, Lit("(")>>
Assign(l, r) == <<Lit(l), Sp0, Lit("="), Sp0, r>>
\* ['\"][^'\"]{n,}['\"]
Quoted(n) == One({t \in StrLits : Len(t) - 2 >= n})
\* ['\"][a-zA-Z0-9]{n,}['\"]
QuotedAlnum(n) == Quoted(n)
Markers == {"todo", "fixme", "xxx", "hack"}
HasAny(ls) == UNION {Has(l) : l \in ls}

SECURITY_PATTERNS(language) ==
    CASE language = "python" -> <<
        Pat({Call("exec")}, "Dangerous exec() usage", "critical"),
        Pat({Call("eval")}, "Dangerous eval() usage", "critical"),
        Pat({Call("subprocess.call") \o <<StarNot({")"})>> \o Assign("shell", Lit("true"))},
            "Shell injection risk", "high"),
        Pat({Call("os.system")}, "Command injection risk", "high"),
        Pat({<<One({"pickle.load", "pickle.loads"}), Sp0, Lit("(")>>},
            "Insecure deserialization", "high"),
        Pat({Assign("password", Quoted(3))}, "Hardcoded password", "critical"),
        Pat({Assign("api_key", QuotedAlnum(10))}, "Hardcoded API key", "critical"),
        Pat({Assign("secret", Quoted(5))}, "Hardcoded secret", "high"),
        Pat({Call("md5")}, "Weak hashing algorithm", "medium"),
        Pat({Call("sha1")}, "Weak hashing algorithm", "medium"),
        Pat({Call(".format") \o <<StarNot({")"}), Lit(")"), StarNot({}),
              One(HasAny({"select", "insert", "update", "delete"}))>>},
            "Potential SQL injection", "high"),
        Pat({Assign("verify", Lit("false"))}, "SSL verification disabled", "high"),
        Pat({Assign("debug", Lit("true"))}, "Debug mode enabled", "medium") >>
      [] language = "javascript" -> <<
        Pat({Call("eval")}, "Dangerous eval() usage", "critical"),
        Pat({<<Lit("innerhtml"), Sp0, Lit("=")>>}, "XSS vulnerability risk", "high"),
        Pat({Call("document.write")}, "DOM manipulation risk", "medium"),
        Pat({<<Lit("password"), Sp0, One({"=", ":"}), Sp0, Quoted(3)>>},
            "Hardcoded password", "critical"),
        Pat({<<One({"api_key", "api-key", "apikey"}), Sp0, One({"=", ":"}), Sp0,
               QuotedAlnum(10)>>}, "Hardcoded API key", "critical"),
        Pat({Call("localstorage.setitem") \o
               <<One({"'token'", "'password'", "'secret'"})>>},
            "Sensitive data in localStorage", "medium"),
        Pat({<<Lit("new"), One(WS), Sp0, Lit("function"), Sp0, Lit("(")>>},
            "Dynamic code execution", "high"),
        Pat({<<Lit("dangerouslysetinnerhtml")>>}, "React XSS risk", "high"),
        Pat({<<One({"http://", "ws://"}), NotAhead(<<Lit("localhost")>>)>>},
            "Insecure protocol", "medium") >>
      [] language = "typescript" -> <<
        Pat({Call("eval")}, "Dangerous eval() usage", "critical"),
        Pat({<<Lit("innerhtml"), Sp0, Lit("=")>>}, "XSS vulnerability risk", "high"),
        Pat({<<Lit("as"), One(WS), Sp0, Lit("any")>>}, "Type safety bypass", "low"),
        Pat({<<Lit("@ts-ignore")>>}, "TypeScript error suppression", "low"),
        Pat({<<Lit("@ts-nocheck")>>}, "TypeScript checking disabled", "medium"),
        Pat({<<Lit("password"), Sp0, One({"=", ":"}), Sp0, Quoted(3)>>},
            "Hardcoded password", "critical"),
        Pat({<<Lit("dangerouslysetinnerhtml")>>}, "React XSS risk", "high") >>
      [] OTHER -> <<>>

QUALITY_PATTERNS(language) ==
    CASE language = "python" -> <<
        Pat({<<Lit("except"), Sp0, Lit(":")>>}, "Bare except clause", "medium"),
        Pat({<<Bol, Sp0, One({"pass"}), Sp0, Eol>>}, "Empty code block", "low"),
        Pat({Call("print") \o
               <<NotAhead(<<StarNot({}), Lit("#"), StarNot({}), Lit("debug")>>)>>},
            "Debug print statement", "low"),
        Pat({<<One(HasAny(Markers \cup {"bug"}))>>}, "Code marker found", "info"),
        Pat({<<Bol, Sp0, One({"from"}), One(WS), Sp0, OneNot(WS), StarNot(WS),
               One(WS), Sp0, One({"import"}), One(WS), Sp0, One({"*"})>>},
            "Wildcard import", "medium"),
        Pat({<<Lit("global"), One(WS), Sp0, OneNot(NonWord)>>},
            "Global variable usage", "medium"),
        Pat({Call("time.sleep") \o <<Sp0, One({"10", "60"}), Sp0, Lit(")")>>},
            "Long sleep duration", "low"),
        Pat({<<Lit("except"), StarNot({}), Lit(":"), Sp0, Lit("pass")>>},
            "Silent exception", "medium"),
        Pat({<<Lit("lambda"), StarNot({}), Lit("lambda")>>}, "Nested lambda", "low") >>
      [] language = "javascript" -> <<
        Pat({<<One({"console.log", "console.debug", "console.info"}), Sp0, Lit("(")>>},
            "Debug console statement", "low"),
        Pat({<<Lit("debugger")>>}, "Debugger statement", "medium"),
        Pat({<<Wb, Lit("var"), One(WS)>>}, "Using var instead of let/const", "low"),
        Pat({<<Lit("=="), Sp0, Lit("null")>>,
             <<Lit("null"), Sp0, Lit("=="), NotAhead(<<Lit("=")>>)>>},
            "Loose null comparison", "low"),
        Pat({<<One(HasAny(Markers))>>}, "Code marker found", "info"),
        Pat({Call("alert")}, "Alert statement", "low"),
        Pat({Call(".then") \o <<StarNot({")"}), Lit(")"), Sp0, Eol>>},
            "Missing catch handler", "medium"),
        Pat({Call("settimeout") \o <<OneNot({","}), StarNot({","}), Lit(","), Sp0,
               One({"0"}), Sp0, Lit(")")>>}, "setTimeout with 0 delay", "info") >>
      [] language = "typescript" -> <<
        Pat({<<One({"console.log", "console.debug", "console.info"}), Sp0, Lit("(")>>},
            "Debug console statement", "low"),
        Pat({<<Lit("debugger")>>}, "Debugger statement", "medium"),
        Pat({<<Lit(":"), One({SP}), Lit("any"), Sp0, One({",", ")", "]", ">", ";", "}"})>>,
             <<Lit(":"), One({SP}), Lit("any"), Eol>>}, "Using 'any' type", "medium"),
        Pat({<<One(HasAny(Markers))>>}, "Code marker found", "info"),
        Pat({<<Lit("!.")>>}, "Non-null assertion", "low"),
        Pat({<<Lit("//"), One({SP}), Lit("@ts-expect-error"),
               NotAhead(<<One(WS), Sp0, OneNot(WS)>>)>>},
            "Unexplained ts-expect-error", "low") >>
      [] OTHER -> <<>>

-----------------------------------------------------------------------------
(* Text operations.                                                        *)

\* content.split("\n")
\* the places of the newlines of a content
Newlines(content) == {i \in 1..Len(content) : content[i] = NL}

\* the newline a content is cut at first: the one nearest to its middle
MiddleNewline(at, mid) ==
    IF \E k \in at : k >= mid
    THEN CHOOSE k \in at : k >= mid /\ \A m \in at : m >= mid => k <= m
    ELSE CHOOSE k \in at : \A m \in at : m <= k

\* the pieces around one newline, each split in turn
RECURSIVE Split(_)
SplitAt(content, i) ==
    Split(SubSeq(content, 1, i - 1)) \o Split(SubSeq(content, i + 1, Len(content)))

Split(content) ==
    IF Newlines(content) = {} THEN <<content>>
    ELSE SplitAt(content, MiddleNewline(Newlines(content), (Len(content) + 1) \div 2))

\* len(f.readlines())
ReadLinesCount(content) ==
    Cardinality({i \in 1..Len(content) : content[i] = NL})
      + (IF content # <<>> /\ content[Len(content)] # NL THEN 1 ELSE 0)

\* len(line) - len(line.lstrip()), in characters
RECURSIVE Indent(_)
Indent(line) ==
    IF line = <<>> \/ Head(line) \notin WS \cup {NL} THEN 0
    ELSE Len(Head(line)) + Indent(Tail(line))

RECURSIVE LStrip(_)
LStrip(line) ==
    IF line = <<>> \/ Head(line) \notin WS \cup {NL} THEN line ELSE LStrip(Tail(line))

RECURSIVE RStrip(_)
RStrip(line) ==
    IF line = <<>> \/ line[Len(line)] \notin WS \cup {NL} THEN line
    ELSE RStrip(SubSeq(line, 1, Len(line) - 1))

\* str.strip()
Strip(line) == RStrip(LStrip(line))

StartsWith(line, toks) == line # <<>> /\ Head(line) \in toks
EndsWith(line, toks) == line # <<>> /\ line[Len(line)] \in toks

\* line.count(ch), for a character that is a token of its own
Count(line, tok) == Cardinality({i \in 1..Len(line) : line[i] = tok})

\* text[:n], as the text it is cut from and the number of characters kept
Snippet(toks, n) == [src |-> toks, len |-> Min(n, CharLen(toks))]
NoSnippet == Snippet(<<>>, 0)

-----------------------------------------------------------------------------
(* Paths: the directories of a relative path and the name of the file,     *)
(* split as Path(name).suffix splits it.                                   *)

Path(dirs, stem, suffix) == [dirs |-> dirs, stem |-> stem, suffix |-> suffix]

LANGUAGE_MAP ==
    [e \in {".py", ".js", ".jsx", ".ts", ".tsx", ".java", ".go", ".rs", ".rb", ".php",
            ".cs", ".cpp", ".c", ".h", ".hpp", ".swift", ".kt", ".scala", ".vue",
            ".svelte", ".md", ".json", ".yaml", ".yml"} |->
       CASE e = ".py" -> "python"
         [] e \in {".js", ".jsx", ".vue", ".svelte"} -> "javascript"
         [] e \in {".ts", ".tsx"} -> "typescript"
         [] e = ".java" -> "java"
         [] e = ".go" -> "go"
         [] e = ".rs" -> "rust"
         [] e = ".rb" -> "ruby"
         [] e = ".php" -> "php"
         [] e = ".cs" -> "csharp"
         [] e \in {".cpp", ".hpp"} -> "cpp"
         [] e \in {".c", ".h"} -> "c"
         [] e = ".swift" -> "swift"
         [] e = ".kt" -> "kotlin"
         [] e = ".scala" -> "scala"
         [] e = ".md" -> "markdown"
         [] e = ".json" -> "json"
         [] e \in {".yaml", ".yml"} -> "yaml"]

\* str.lower() of a suffix
LowerSuffix(e) == CASE e = ".PY" -> ".py" [] e = ".MD" -> ".md" [] OTHER -> e

get_language(path) ==
    LET ext == LowerSuffix(path.suffix)
    IN IF ext \in DOMAIN LANGUAGE_MAP THEN LANGUAGE_MAP[ext] ELSE None

-----------------------------------------------------------------------------
(* The per-file scanner.                                                   *)

CodeIssue(file_path, line_number, category, severity, title, description, code_snippet) ==
    [file_path |-> file_path, line_number |-> line_number, category |-> category,
     severity |-> severity, title |-> title, description |-> description,
     code_snippet |-> code_snippet]

\* an f-string: its text with {} for each value, and the numbers or the text put in
Desc(fmt, nums, str) == [fmt |-> fmt, nums |-> nums, str |-> str]

NoPath == Path(<<>>, "", "")

DocOpen == {"\"\"\"", "'''"}

comment_patterns(language) ==
    IF language = "python"
    THEN {<<Bol, Sp0, Lit("#")>>, <<Bol, Sp0, One(DocOpen)>>}
    ELSE {<<Bol, Sp0, Lit("//")>>, <<Bol, Sp0, Lit("/*")>>}

count_lines(lines, language) ==
    LET blank == {i \in 1..Len(lines) : Strip(lines[i]) = <<>>}
        comment == {i \in 1..Len(lines) \ blank : Match(comment_patterns(language), lines[i])}
    IN [code |-> Len(lines) - Cardinality(blank) - Cardinality(comment),
        blank |-> Cardinality(blank), comment |-> Cardinality(comment)]

WordTok == OneNot(NonWord)
Keyword(w) == {<<Wb, One({w}), Wb>>}

complexity_patterns ==
    <<Keyword("if"), Keyword("else"), Keyword("elif"), Keyword("for"), Keyword("while"),
      Keyword("try"), Keyword("catch"), Keyword("except"), Keyword("case"),
      Keyword("and"), Keyword("or"), {<<Wb, One({"?"}), Sp0, Lit(":")>>},
      {<<Lit("&&")>>}, {<<Lit("||")>>}>>

ComplexityHits(line) ==
    Cardinality({k \in 1..Len(complexity_patterns) : Search(complexity_patterns[k], line)})

ArrowTail == <<Opt(<<One({"async"}), Sp0>>), Opt(<<One({"("})>>), StarNot({")"}),
               Opt(<<One({")"})>>), Sp0, Lit("=>")>>

\* the alternatives of the definition pattern, in order; each captures one word
function_patterns(language) ==
    CASE language = "python" ->
           << <<Bol, Sp0, Opt(<<One({"async"}), One(WS), Sp0>>), One({"def"}), One(WS), Sp0,
                WordTok, Sp0, Lit("(")>> >>
      [] language = "javascript" ->
           << <<Lit("function"), One(WS), Sp0, WordTok>>,
              <<One({"const", "let", "var"}), One(WS), Sp0, WordTok, Sp0, Lit("="), Sp0>>
                 \o ArrowTail,
              <<WordTok, Sp0, Lit(":"), Sp0>> \o ArrowTail >>
      [] language = "typescript" ->
           << <<Lit("function"), One(WS), Sp0, WordTok>>,
              <<One({"const", "let", "var"}), One(WS), Sp0, WordTok, Sp0,
                One({"=", ":"}), Sp0>> \o ArrowTail,
              <<WordTok, Sp0, Lit("("), StarNot({")"}), Lit(")"), Sp0, One({":", "{"})>> >>
      [] OTHER -> <<>>

\* the first word at or after position j that is not one of the leading keywords
RECURSIVE CapturedWord(_, _)
CapturedWord(line, j) ==
    IF j > Len(line) THEN "anonymous"
    ELSE IF line[j] \in NonWord \cup {"async", "def", "function", "const", "let", "var"}
         THEN CapturedWord(line, j + 1)
         ELSE line[j]

\* the least member of a set of numbers
First(S) == CHOOSE m \in S : \A n \in S : m <= n

\* the positions of the line where an alternative of the pattern matches
MatchStarts(alts, line) ==
    {j \in 1..(Len(line) + 1) : \E a \in 1..Len(alts) : MatchAt(alts[a], 1, line, j)}

\* the first alternative that matches at position j
FirstAlt(alts, line, j) ==
    CHOOSE b \in 1..Len(alts) :
        /\ MatchAt(alts[b], 1, line, j)
        /\ \A c \in 1..(b - 1) : ~MatchAt(alts[c], 1, line, j)

\* next((g for g in match.groups() if g), "anonymous") for the match at position j
Group(alts, line, j) ==
    IF FirstAlt(alts, line, j) = 3 THEN line[j] ELSE CapturedWord(line, j)

MatchGroup(alts, line, starts) ==
    IF starts = {} THEN None ELSE Group(alts, line, First(starts))

\* re.search(func_pattern, line) and the group it captured, None without a match
FuncName(line, language) ==
    MatchGroup(function_patterns(language), line,
               MatchStarts(function_patterns(language), line))

Function(name, start_line, end_line, complexity) ==
    [name |-> name, start_line |-> start_line, end_line |-> end_line,
     lines |-> end_line - start_line, complexity |-> complexity]

\* The loop over enumerate(lines), read off line by line: names[k] and hits[k] are the
\* function name and the complexity hits found on line k (k = i + 1).

\* the lines on which the function pattern matches
DefinitionLines(names) == {k \in 1..Len(names) : names[k] # None}

\* the line of the next match after line d, or 0 when the function at d is the last
NextDefinition(names, d) ==
    IF \E e \in DefinitionLines(names) : e > d
    THEN CHOOSE e \in DefinitionLines(names) :
             e > d /\ \A m \in DefinitionLines(names) : m > d => e <= m
    ELSE 0

\* end_line of the function that starts at line d (func_start = i + 1 = d): the index
\* i of the line of the next match, or len(lines) after the loop
EndLine(names, d) ==
    IF NextDefinition(names, d) = 0 THEN Len(names) ELSE NextDefinition(names, d) - 1

\* func_complexity when the function is appended: it is reset after the match on
\* line d, and the hits of a line are counted before the match on that same line
\* closes the function
FuncComplexity(names, hits, d) ==
    SumSeq(SubSeq(hits, d + 1,
                  IF NextDefinition(names, d) = 0 THEN Len(names)
                  ELSE NextDefinition(names, d)))

\* the d-th smallest member of a set of numbers
Nth(S, n) == CHOOSE d \in S : Cardinality({e \in S : e < d}) = n - 1

FunctionAt(names, hits, d) ==
    Function(names[d], d, EndLine(names, d), FuncComplexity(names, hits, d))

\* total_complexity and functions when the loop and the append after it are done
ScanFunctions(names, hits) ==
    [total_complexity |-> SumSeq(hits),
     functions |-> [n \in 1..Cardinality(DefinitionLines(names)) |->
                      FunctionAt(names, hits, Nth(DefinitionLines(names), n))]]

\* what the loop finds on each line: the function defined there, the complexity hits
FuncNames(lines, language) == [k \in 1..Len(lines) |-> FuncName(lines[k], language)]
LineHits(lines) == [k \in 1..Len(lines) |-> ComplexityHits(lines[k])]

\* the hits of the complexity patterns (the score divides them by
\* max(len(lines) / 100, 1)) and the functions found
calculate_complexity(content, language) ==
    ScanFunctions(FuncNames(Split(content), language), LineHits(Split(content)))

\* current_nesting after line i of the loop
\* the last line up to line i that is not blank, 0 if there is none
LastCode(lines, i) ==
    IF \A j \in 1..i : Strip(lines[j]) = <<>> THEN 0
    ELSE CHOOSE j \in 1..i : Strip(lines[j]) # <<>> /\ \A m \in (j + 1)..i : Strip(lines[m]) = <<>>

NestingAt(lines, language, i) ==
    IF language = "python"
    THEN IF LastCode(lines, i) = 0 THEN 0 ELSE Indent(lines[LastCode(lines, i)]) \div 4
    ELSE SumSeq([j \in 1..i |-> Count(lines[j], "{") - Count(lines[j], "}")])

\* a variant of detect_deep_nesting without the break: an issue for every deep line
detect_deep_nesting_all(content, language) ==
    Flatten([i \in 1..Len(Split(content)) |->
      IF NestingAt(Split(content), language, i) > 4
      THEN <<CodeIssue(NoPath, i, "complexity", "medium", <<"Deep nesting detected">>,
               Desc("Code is nested {} levels deep",
                    <<NestingAt(Split(content), language, i)>>, <<>>),
               Snippet(Strip(Split(content)[i]), 80))>>
      ELSE <<>>])

detect_deep_nesting(content, language) ==
    LET lines == Split(content)
        deep == {i \in 1..Len(lines) : NestingAt(lines, language, i) > 4}
    IN IF deep = {} THEN <<>>
       ELSE LET i == CHOOSE m \in deep : \A n \in deep : m <= n
            IN <<CodeIssue(NoPath, i, "complexity", "medium", <<"Deep nesting detected">>,
                   Desc("Code is nested {} levels deep", <<NestingAt(lines, language, i)>>, <<>>),
                   Snippet(Strip(lines[i]), 80))>>

LongIssue(func, file_path) ==
    IF func.lines > 50
    THEN <<CodeIssue(file_path, func.start_line, "maintainability", "medium",
             <<"Long function: ", func.name>>,
             Desc("Function has {} lines (recommended < 50)", <<func.lines>>, <<>>), NoSnippet)>>
    ELSE <<>>

ComplexIssue(func, file_path) ==
    IF func.complexity > 10
    THEN <<CodeIssue(file_path, func.start_line, "complexity", "medium",
             <<"Complex function: ", func.name>>,
             Desc("Cyclomatic complexity of {} (recommended < 10)", <<func.complexity>>, <<>>),
             NoSnippet)>>
    ELSE <<>>

detect_long_functions(functions, file_path) ==
    Flatten([k \in 1..Len(functions) |->
               LongIssue(functions[k], file_path) \o ComplexIssue(functions[k], file_path)])

\* the lines j that the lookahead after the definition at line i reads, nearest first
DocstringFollows(lines, i) ==
    \E j \in (i + 1)..Min(i + 4, Len(lines)) :
        /\ StartsWith(Strip(lines[j]), DocOpen)
        /\ \A m \in (i + 1)..(j - 1) : Strip(lines[m]) = <<>>

JsDocPrecedes(lines, i) ==
    \E j \in Max(i - 4, 2)..(i - 1) :
        /\ EndsWith(Strip(lines[j]), {"*/"})
        /\ \A m \in (j + 1)..(i - 1) :
              Strip(lines[m]) = <<>> \/ StartsWith(Strip(lines[m]), {"*", "*/"})

doc_func_pattern ==
    {<<Lit("function"), One(WS), Sp0, WordTok>>,
     <<One({"const", "let"}), One(WS), Sp0, WordTok, Sp0, Lit("="), Sp0,
       Opt(<<One({"async"}), Sp0>>), Lit("(")>>}

\* the lines that define a function, as check_documentation finds them
DocFuncs(lines, language) ==
    CASE language = "python" ->
           {i \in 1..Len(lines) : Match({function_patterns("python")[1]}, lines[i])}
      [] language \in {"javascript", "typescript"} ->
           {i \in 1..Len(lines) : Search(doc_func_pattern, lines[i])}
      [] OTHER -> {}

\* those of them that have a docstring or a JSDoc comment
Documented(lines, language, funcs) ==
    IF language = "python"
    THEN {i \in funcs : DocstringFollows(lines, i)}
    ELSE {i \in funcs : JsDocPrecedes(lines, i)}

MissingDocstring(content, file_path, language) ==
    IF language = "python" /\ ~StartsWith(Strip(content), DocOpen)
    THEN <<CodeIssue(file_path, 1, "documentation", "info", <<"Missing module docstring">>,
             Desc("Module lacks a docstring explaining its purpose", <<>>, <<>>), NoSnippet)>>
    ELSE <<>>

LowCoverage(file_path, total_functions, documented_functions) ==
    IF total_functions > 3 /\ documented_functions * 100 < 50 * Max(total_functions, 1)
    THEN <<CodeIssue(file_path, 1, "documentation", "low", <<"Low documentation coverage">>,
             Desc("Only {}/{} functions are documented",
                  <<documented_functions, total_functions>>, <<>>),
             NoSnippet)>>
    ELSE <<>>

\* the issues of check_documentation (its score is used for the issue only)
check_documentation(content, file_path, language) ==
    MissingDocstring(content, file_path, language)
    \o LowCoverage(file_path, Cardinality(DocFuncs(Split(content), language)),
                   Cardinality(Documented(Split(content), language,
                                          DocFuncs(Split(content), language))))

\* a variant of PatternIssues that stops at the first line a pattern is found in
PatternIssuesFirstLine(patterns, lines, file_path, category, description) ==
    Flatten([k \in 1..Len(patterns) |->
      LET hits == {n \in 1..Len(lines) : SearchI(patterns[k].re, lines[n])}
      IN IF hits = {} THEN <<>>
         ELSE LET n == CHOOSE m \in hits : \A h \in hits : m <= h
              IN <<CodeIssue(file_path, n, category, patterns[k].severity,
                     <<patterns[k].title>>, description, Snippet(Strip(lines[n]), 100))>>])

\* one catalog applied: for each pattern, in order, every line it is found in
PatternIssues(patterns, lines, file_path, category, description) ==
    Flatten([k \in 1..Len(patterns) |->
      Flatten([n \in 1..Len(lines) |->
        IF SearchI(patterns[k].re, lines[n])
        THEN <<CodeIssue(file_path, n, category, patterns[k].severity, <<patterns[k].title>>,
                 description, Snippet(Strip(lines[n]), 100))>>
        ELSE <<>>])])

OnPath(issues, file_path) ==
    [k \in 1..Len(issues) |-> [issues[k] EXCEPT !.file_path = file_path]]

\* what json.load and the merge of the two dependency tables give for a package.json:
\* ok is FALSE when either raises (malformed text, a value that is no object)
Json(ok, dependencies, devDependencies) ==
    [ok |-> ok, dependencies |-> dependencies, devDependencies |-> devDependencies]
NoJson == Json(FALSE, <<>>, <<>>)

\* a file of the workspace: its relative path, its content, whether it can be opened
\* (a dangling symbolic link cannot, and os.path.exists is False for it), and for a
\* JSON manifest the value it holds
File(path, content, readable, json) ==
    [path |-> path, content |-> content, readable |-> readable, json |-> json]

LargeFile(file_path, lines) ==
    IF Len(lines) > 500
    THEN <<CodeIssue(file_path, 1, "maintainability", "medium", <<"Large file">>,
             Desc("File has {} lines", <<Len(lines)>>, <<>>), NoSnippet)>>
    ELSE <<>>

LongLines(file_path, long_line_count) ==
    IF long_line_count > 5
    THEN <<CodeIssue(file_path, 1, "code_quality", "low", <<"Multiple long lines">>,
             Desc("{} lines exceed 120 characters", <<long_line_count>>, <<>>), NoSnippet)>>
    ELSE <<>>

\* the issues of a file, in the order analyze_file appends them
FileIssues(file, language, lines, functions) ==
    PatternIssues(SECURITY_PATTERNS(language), lines, file.path, "security",
                  Desc("Security issue in {} code", <<>>, <<language>>))
    \o PatternIssues(QUALITY_PATTERNS(language), lines, file.path, "code_quality",
                     Desc("Code quality issue in {}", <<>>, <<language>>))
    \o OnPath(detect_deep_nesting(file.content, language), file.path)
    \o detect_long_functions(functions, file.path)
    \o check_documentation(file.content, file.path, language)
    \o LargeFile(file.path, lines)
    \o LongLines(file.path, Cardinality({n \in 1..Len(lines) : CharLen(lines[n]) > 120}))

FileAnalysis(file, language, lines, counts, complexity) ==
    [file_path |-> file.path, language |-> language,
     lines_of_code |-> counts.code, blank_lines |-> counts.blank,
     comment_lines |-> counts.comment,
     total_complexity |-> complexity.total_complexity,
     issues |-> FileIssues(file, language, lines, complexity.functions),
     functions |-> complexity.functions]

\* the body of analyze_file once the language is known and the file is read
Analyzed(file, language, lines) ==
    FileAnalysis(file, language, lines, count_lines(lines, language),
                 calculate_complexity(file.content, language))

\* a variant of analyze_file that takes a file it cannot read for an empty one
analyze_file_unread_as_empty(file) ==
    IF get_language(file.path) = None THEN <<>>
    ELSE <<Analyzed(file, get_language(file.path), Split(file.content))>>

analyze_file(file) ==
    IF get_language(file.path) = None \/ ~file.readable THEN <<>>
    ELSE <<Analyzed(file, get_language(file.path), Split(file.content))>>

-----------------------------------------------------------------------------
(* The workspace: the files of the clone in the order os.walk yields them. *)

IGNORE_PATTERNS ==
    <<"node_modules", ".git", "__pycache__", ".venv", "venv", "dist", "build", ".next",
      "coverage", ".pytest_cache", ".mypy_cache", "*.min.js", "*.min.css",
      "package-lock.json", "yarn.lock", "poetry.lock", ".env", "*.map", "*.d.ts",
      ".idea", ".vscode", "target", "vendor">>

\* the suffix a wildcard pattern stands for, None for a plain pattern
WildcardSuffix(pattern) ==
    CASE pattern = "*.min.js" -> ".min.js"
      [] pattern = "*.min.css" -> ".min.css"
      [] pattern = "*.map" -> ".map"
      [] pattern = "*.d.ts" -> ".d.ts"
      [] OTHER -> None

\* <<t, l>>: the text t ends with l
Ends == {<<"app.min.js", ".min.js">>, <<"app_test", "_test">>, <<"latest", "test">>,
         <<"notgithub.com", "github.com">>}

EndsIn(l) == {l} \cup {p[1] : p \in {q \in Ends : q[2] = l}}

\* the components of a relative path, lower-cased
Components(path) == path.dirs \o <<path.stem \o path.suffix>>

\* should_ignore(path), path given by its components
should_ignore(components) ==
    \E k \in 1..Len(IGNORE_PATTERNS) :
        LET pattern == IGNORE_PATTERNS[k] IN
        IF WildcardSuffix(pattern) # None
        THEN components # <<>>
             /\ Lower(components[Len(components)]) \in EndsIn(WildcardSuffix(pattern))
        ELSE \E c \in 1..Len(components) : Lower(components[c]) \in Has(pattern)

\* os.walk with the ignored directories pruned: the files it reaches
Pruned(file) == \E d \in 1..Len(file.path.dirs) : should_ignore(<<file.path.dirs[d]>>)

Reached(files) == SelectSeq(files, LAMBDA f : ~Pruned(f))

\* os.path.exists(os.path.join(repo_path, name)) and the file found there
RootFiles(files, name) ==
    SelectSeq(files, LAMBDA f : f.path.dirs = <<>> /\ f.path.stem \o f.path.suffix = name
                                /\ f.readable)

\* list.sort and sorted are stable; descending with reverse=True keeps ties in order too.
\* The elements sorted carry their keys: [key |-> the key, item |-> the element].
\* a variant of InsertSorted that puts an element before those of the same key
RECURSIVE InsertBeforeEqual(_, _, _)
InsertBeforeEqual(sorted, x, reverse) ==
    IF sorted = <<>> THEN <<x>>
    ELSE IF (IF reverse THEN sorted[Len(sorted)].key > x.key
             ELSE sorted[Len(sorted)].key < x.key)
         THEN Append(sorted, x)
         ELSE Append(InsertBeforeEqual(SubSeq(sorted, 1, Len(sorted) - 1), x, reverse),
                     sorted[Len(sorted)])

RECURSIVE InsertSorted(_, _, _)
InsertSorted(sorted, x, reverse) ==
    IF sorted = <<>> THEN <<x>>
    ELSE LET last == sorted[Len(sorted)]
             after == IF reverse THEN last.key >= x.key ELSE last.key <= x.key
         IN IF after THEN Append(sorted, x)
            ELSE Append(InsertSorted(SubSeq(sorted, 1, Len(sorted) - 1), x, reverse), last)

RECURSIVE SortKeyed(_, _)
SortKeyed(s, reverse) ==
    IF s = <<>> THEN <<>>
    ELSE InsertSorted(SortKeyed(SubSeq(s, 1, Len(s) - 1), reverse), s[Len(s)], reverse)

\* sorted(s, key=..., reverse=reverse), keys[k] being the key of s[k]
SortedBy(s, keys, reverse) ==
    LET sorted == SortKeyed([k \in 1..Len(s) |-> [key |-> keys[k], item |-> s[k]]], reverse)
    IN [k \in 1..Len(s) |-> sorted[k].item]

-----------------------------------------------------------------------------
(* Repository-level detectors.                                             *)

\* a JSON value that is not a string, where a version string is expected
NotAString == <<"<number>">>

\* {**dependencies, **devDependencies}: a later value replaces an earlier one in place
RECURSIVE MergeDicts(_, _)
MergeDicts(a, b) ==
    IF b = <<>> THEN a
    ELSE LET e == Head(b)
             at == {i \in 1..Len(a) : a[i].dep = e.dep}
         IN MergeDicts(IF at = {} THEN Append(a, e)
                       ELSE [i \in 1..Len(a) |-> IF i \in at THEN e ELSE a[i]],
                       Tail(b))

VersionStartsWith(version, prefix) ==
    Len(version) >= Len(prefix) /\ SubSeq(version, 1, Len(prefix)) = prefix

DepSnippet(dep, version) ==
    LET text == <<"\"", dep, "\"", ":", SP, "\"">> \o version \o <<"\"">>
    IN [src |-> text, len |-> CharLen(text)]

PackageIssue(dep, version) ==
    IF VersionStartsWith(version, <<"*">>) \/ version = <<"latest">>
    THEN <<CodeIssue(Path(<<>>, "package", ".json"), 1, "dependency", "high",
             <<"Unpinned dependency: ", dep>>, Desc("Dependency uses '{}'", <<>>, version),
             DepSnippet(dep, version))>>
    ELSE IF VersionStartsWith(version, <<"^", "0">>)
    THEN <<CodeIssue(Path(<<>>, "package", ".json"), 1, "dependency", "medium",
             <<"Unstable dependency: ", dep>>, Desc("Version {} is pre-1.0", <<>>, version),
             DepSnippet(dep, version))>>
    ELSE <<>>

\* the loop over deps.items(); a value that is no string raises, which ends the loop
\* and keeps the issues appended so far
RECURSIVE PackageIssues(_)
PackageIssues(deps) ==
    IF deps = <<>> \/ Head(deps).version = NotAString THEN <<>>
    ELSE PackageIssue(Head(deps).dep, Head(deps).version) \o PackageIssues(Tail(deps))

\* the lines a file object yields, each stripped
ReadLines(content) ==
    LET pieces == Split(content)
    IN IF content = <<>> \/ content[Len(content)] = NL
       THEN SubSeq(pieces, 1, Len(pieces) - 1) ELSE pieces

RequirementsIssues(content) ==
    LET lines == ReadLines(content) IN
    Flatten([n \in 1..Len(lines) |->
      LET line == Strip(lines[n]) IN
      IF line # <<>> /\ ~StartsWith(line, {"#"})
         /\ ~Search({<<One({"=", "==", "<", ">", ">=", "<=", "~=", "!="})>>}, line)
      THEN <<CodeIssue(Path(<<>>, "requirements", ".txt"), n, "dependency", "medium",
               <<"Unpinned: ">> \o line, Desc("No version specified", <<>>, <<>>),
               [src |-> line, len |-> CharLen(line)])>>
      ELSE <<>>])

check_dependencies(files) ==
    LET package_json == RootFiles(files, "package.json")
        requirements_txt == RootFiles(files, "requirements.txt")
    IN (IF package_json = <<>> \/ ~package_json[1].json.ok THEN <<>>
        ELSE PackageIssues(MergeDicts(package_json[1].json.dependencies,
                                      package_json[1].json.devDependencies)))
       \o (IF requirements_txt = <<>> THEN <<>>
           ELSE RequirementsIssues(requirements_txt[1].content))

readme_files == <<"README.md", "README.rst", "README.txt", "README">>

\* a README section heading: "#", then anything on the same line, then the word
Heading(words) == {<<Lit("#"), StarNot({NL}), Lit(w)>> : w \in words}

essential_patterns ==
    <<[re |-> Heading({"install"}), section |-> "Missing Installation section"],
      [re |-> Heading({"usage"}) \cup {<<Lit("#"), StarNot({NL}), Lit("getting"), One({SP}),
                                        Lit("started")>>},
       section |-> "Missing Usage section"],
      [re |-> Heading({"license"}), section |-> "Missing License section"]>>

\* a variant of NoReadme that scores 0 without saying why
NoReadmeSilent == [score |-> 0, issues |-> <<>>]

\* what check_readme returns when none of the files exists
NoReadme == [score |-> 0, issues |-> <<"No README file found">>]

check_readme(files) ==
    LET present == {k \in 1..Len(readme_files) : RootFiles(files, readme_files[k]) # <<>>}
    IN IF present = {} THEN NoReadme
       ELSE LET first == CHOOSE k \in present : \A m \in present : k <= m
                content == RootFiles(files, readme_files[first])[1].content
                length == IF CharLen(content) < 100
                          THEN [issues |-> <<"README is too short (< 100 characters)">>,
                                cost |-> 30]
                          ELSE IF CharLen(content) < 500
                          THEN [issues |-> <<"README could be more detailed">>, cost |-> 10]
                          ELSE [issues |-> <<>>, cost |-> 0]
                missing == SelectSeq(essential_patterns,
                                     LAMBDA e : ~SearchI(e.re, content))
                code == IF \E i \in 1..Len(content) : content[i] \in Has(FENCE)
                        THEN [issues |-> <<>>, cost |-> 0]
                        ELSE [issues |-> <<"No code examples found">>, cost |-> 10]
            IN [score |-> Max(0, 100 - length.cost - 15 * Len(missing) - code.cost),
                issues |-> length.issues \o [k \in 1..Len(missing) |-> missing[k].section]
                             \o code.issues]

\* any(re.search(p, relative_path) for p in test_patterns)
IsTest(path) ==
    \/ /\ path.suffix = ".py"
       /\ \E c \in Range(path.dirs) \cup {path.stem} : c \in Has("test_")
    \/ path.suffix = ".py" /\ path.stem \in EndsIn("_test")
    \/ /\ path.suffix \in {".js", ".jsx", ".ts", ".tsx"}
       /\ path.stem \in EndsIn(".test") \cup EndsIn(".spec")
    \/ \E c \in Range(Components(path)) : c \in Has("__tests__")
    \/ \E d \in Range(path.dirs) : d \in EndsIn("test") \cup EndsIn("tests")

\* the test_files, test_lines and source_lines of estimate_test_coverage; the estimate
\* is min(100, test_lines / max(source_lines, 1) * 100 * 2)
estimate_test_coverage(files) ==
    LET read == SelectSeq(Reached(files),
                          LAMBDA f : ~should_ignore(Components(f.path)) /\ f.readable)
        tests == SelectSeq(read, LAMBDA f : IsTest(f.path))
        sources == SelectSeq(read, LAMBDA f : ~IsTest(f.path))
    IN [test_files |-> Len(tests),
        test_lines |-> SumSeq([k \in 1..Len(tests) |-> ReadLinesCount(tests[k].content)]),
        source_lines |-> SumSeq([k \in 1..Len(sources) |->
                                    ReadLinesCount(sources[k].content)])]

\* test_coverage < percent, for the estimate of the metrics t
CoverageBelow(t, percent) ==
    percent > 100 \/ t.test_lines * 200 < percent * Max(t.source_lines, 1)

\* round(a / b) to the nearest integer, a half to the even one
RoundDiv(a, b) ==
    LET q == a \div b
        r == a % b
    IN IF 2 * r > b \/ (2 * r = b /\ q % 2 = 1) THEN q + 1 ELSE q

\* the estimate in tenths of a percent: round(test_coverage, 1)
CoverageTenths(t) ==
    Min(1000, RoundDiv(t.test_lines * 2000, Max(t.source_lines, 1)))

\* file_counts: the paths of the lines that are not blank and not ignored, in the order
\* they are met first, each with the number of its lines
FileCounts(log) ==
    LET kept == SelectSeq(log, LAMBDA line : line # <<>> /\ ~should_ignore(line))
        firsts == SelectSeq([i \in 1..Len(kept) |-> i],
                            LAMBDA i : \A m \in 1..(i - 1) : kept[m] # kept[i])
    IN [k \in 1..Len(firsts) |->
          [file |-> kept[firsts[k]],
           changes |-> Cardinality({i \in 1..Len(kept) : kept[i] = kept[firsts[k]]})]]

SortedCounts(counted) ==
    SortedBy(counted, [k \in 1..Len(counted) |-> counted[k].changes], TRUE)

\* the entries of hot_files for sorted_files[:10]
HotEntries(sorted_files) ==
    [k \in 1..Min(10, Len(sorted_files)) |->
       [file |-> sorted_files[k].file, changes |-> sorted_files[k].changes,
        status |-> IF sorted_files[k].changes > 10 THEN "hot"
                   ELSE IF sorted_files[k].changes > 5 THEN "warm" ELSE "normal"]]

\* a variant of HotFiles that cuts file_counts without sorting it
HotFilesUnsorted(log) == HotEntries(FileCounts(log))

\* git log --name-only over the last 100 commits: outcome is "ok" with the paths printed,
\* or the failure (a non-zero exit, a timeout, no git executable).
\* First the ten most changed files of the output.
HotFiles(log) == HotEntries(SortedCounts(FileCounts(log)))

\* a variant of get_git_hot_files that reads the output whatever the exit was
hot_files_unchecked(outcome, log) == HotFiles(log)

get_git_hot_files(outcome, log) == IF outcome # "ok" THEN <<>> ELSE HotFiles(log)

-----------------------------------------------------------------------------
(* The aggregator, the scores and the recommendations.                     *)

CountSeverity(issues, severity) ==
    Cardinality({i \in 1..Len(issues) : issues[i].severity = severity})

\* a variant of Summary that leaves the info issues uncounted
SummaryWithoutInfo(issues) ==
    [critical |-> CountSeverity(issues, "critical"), high |-> CountSeverity(issues, "high"),
     medium |-> CountSeverity(issues, "medium"), low |-> CountSeverity(issues, "low"),
     info |-> 0]

Summary(issues) ==
    [critical |-> CountSeverity(issues, "critical"), high |-> CountSeverity(issues, "high"),
     medium |-> CountSeverity(issues, "medium"), low |-> CountSeverity(issues, "low"),
     info |-> CountSeverity(issues, "info")]

\* a variant of calculate_security_score without the lower clamp
security_score_unclamped(summary) ==
    100 - (summary.critical * 25 + summary.high * 15 + summary.medium * 5 + summary.low * 1)

calculate_security_score(summary) ==
    LET deductions == summary.critical * 25 + summary.high * 15 + summary.medium * 5
                        + summary.low * 1
    IN Max(0, 100 - deductions)

\* int(x) of the real 100 - issues_ratio * 10, where issues_ratio * 10 = num / den
IntOf100Minus(num, den) ==
    IF num <= 100 * den THEN 100 - ((num + den - 1) \div den) ELSE 100 - (num \div den)

calculate_quality_score(summary, total_lines) ==
    LET total_issues == summary.critical + summary.high + summary.medium + summary.low
                          + summary.info
        value == IF total_lines <= 100 THEN IntOf100Minus(total_issues * 10, 1)
                 ELSE IntOf100Minus(total_issues * 1000, total_lines)
    IN Max(0, Min(100, value))

\* round(len(all_issues) / max(total_lines / 1000, 1), 2), in hundredths
issues_per_1000_lines(n_issues, total_lines) ==
    IF total_lines <= 1000 THEN n_issues * 100
    ELSE RoundDiv(n_issues * 100000, total_lines)

complexity_metrics(all_functions) ==
    [total_functions |-> Len(all_functions),
     long_functions |-> Cardinality({k \in 1..Len(all_functions) :
                                       all_functions[k].lines > 50}),
     complex_functions |-> Cardinality({k \in 1..Len(all_functions) :
                                          all_functions[k].complexity > 10})]

\* "hardcoded" in title.lower()
TitleHasHardcoded(title) ==
    \E k \in 1..Len(title) :
        \/ title[k] \in {"Hardcoded password", "Hardcoded API key", "Hardcoded secret"}
        \/ Lower(title[k]) \in Has("hardcoded")

\* a variant of FirstEight that returns the whole list
Untruncated(recommendations) == recommendations

\* a variant of FirstEight that keeps the end of the list
LastEight(recommendations) ==
    SubSeq(recommendations, Max(1, Len(recommendations) - 7), Len(recommendations))

\* recommendations[:8]
FirstEight(recommendations) == SubSeq(recommendations, 1, Min(8, Len(recommendations)))

\* a recommendation: the rule that produced it and the number its message cites
Rec(rule, n) == [rule |-> rule, n |-> n]
When(cond, rec) == IF cond THEN <<rec>> ELSE <<>>

generate_recommendations(has_hardcoded, summary, languages, coverage, readme_score, metrics) ==
    LET percent == RoundDiv(Min(100 * Max(coverage.source_lines, 1), coverage.test_lines * 200),
                            Max(coverage.source_lines, 1))
        recommendations ==
            When(summary.critical > 0, Rec("critical", summary.critical))
            \o When(summary.high > 0, Rec("high", summary.high))
            \o When(has_hardcoded, Rec("hardcoded secrets", 0))
            \o (IF CoverageBelow(coverage, 30) THEN <<Rec("test coverage low", percent)>>
                ELSE IF CoverageBelow(coverage, 60) THEN <<Rec("test coverage", percent)>>
                ELSE <<>>)
            \o When(readme_score < 50, Rec("README", 0))
            \o When(metrics.complex_functions > 5,
                    Rec("complex functions", metrics.complex_functions))
            \o When(metrics.long_functions > 5, Rec("long functions", metrics.long_functions))
            \o When("python" \in languages, Rec("Python tooling", 0))
            \o When("javascript" \in languages \/ "typescript" \in languages,
                    Rec("JS/TS tooling", 0))
        all == IF recommendations = <<>> THEN <<Rec("healthy", 0)>> ELSE recommendations
    IN FirstEight(all)

-----------------------------------------------------------------------------
(* The URL parser.  A URL is a sequence of tokens in which "/" and ":" are *)
(* tokens of their own and a ".git" ending is split from the name.         *)

\* a branch that is None or "": both are false where the code tests it
NoBranch == <<>>

RECURSIVE Join(_)
Join(toks) == IF toks = <<>> THEN "" ELSE Head(toks) \o Join(Tail(toks))

\* the tokens from position j up to the next "/" or the end: [^/]+ at j
Segment(url, j) ==
    LET stops == {k \in j..Len(url) : url[k] = "/"}
        end == IF stops = {} THEN Len(url) + 1
               ELSE CHOOSE k \in stops : \A m \in stops : k <= m
    IN SubSeq(url, j, end - 1)

\* re.search(r"/tree/([^/]+)", url).group(1), NoBranch without a match
UrlBranch(url) ==
    LET at == {j \in 1..Len(url) :
                 /\ j + 3 <= Len(url)
                 /\ url[j] = "/" /\ url[j + 1] = "tree" /\ url[j + 2] = "/"
                 /\ url[j + 3] # "/"}
    IN IF at = {} THEN NoBranch
       ELSE <<Join(Segment(url, (CHOOSE j \in at : \A m \in at : j <= m) + 3))>>

\* (?:\.git)?(?:/tree/[^/]+)?/?$
UrlTail == <<Opt(<<One({".git"})>>),
             Opt(<<One({"/"}), One({"tree"}), One({"/"}), OneNot({"/"}), StarNot({"/"})>>),
             Opt(<<One({"/"})>>), Eol>>

\* the lengths n of the lazy group ([^/]+?) starting at token r that the tail fits after
TailFits(url, r, seg) == {n \in 1..Len(seg) : MatchAt(UrlTail, 1, url, r + n)}

\* the number of tokens the lazy group takes after the owner, 0 without a match
LazyGroup(url, owner, r) ==
    IF owner = <<>> \/ r - 1 > Len(url) \/ TailFits(url, r, Segment(url, r)) = {} THEN 0
    ELSE First(TailFits(url, r, Segment(url, r)))

\* the token the second group starts at when the pattern is tried at token j
RepoStart(url, j) == j + 2 + Len(Segment(url, j + 2)) + 1

\* the match of github\.com[/:]([^/]+)/([^/]+?) and the tail, starting at token j:
\* the number of tokens of the lazy group, 0 without a match
RepoLen(url, j) ==
    IF ~(/\ j + 1 <= Len(url)
         /\ url[j] \in EndsIn("github.com")
         /\ url[j + 1] \in {"/", ":"})
    THEN 0
    ELSE LazyGroup(url, Segment(url, j + 2), RepoStart(url, j))

\* str.replace(".git", "") of a token
ReplaceGit(t) ==
    CASE t = ".git" -> ""
      [] t = "my.github.io" -> "myhub.io"
      [] OTHER -> t

\* the return statement: (owner, repo, clone_url, branch)
ParsedUrl(url, owner, repo) ==
    [ok |-> TRUE, owner |-> owner, repo |-> repo,
     clone_url |-> <<"https://", "github.com", "/", owner, "/", repo, ".git">>,
     branch |-> UrlBranch(url)]

\* repo.replace(".git", "") of the tokens the second group matched
RepoName(group) == Join([k \in 1..Len(group) |-> ReplaceGit(group[k])])

\* the groups of the match that starts at token j
MatchedAt(url, j) ==
    ParsedUrl(url, Join(Segment(url, j + 2)),
              RepoName(SubSeq(url, RepoStart(url, j),
                              RepoStart(url, j) + RepoLen(url, j) - 1)))

\* the tokens re.search can match the pattern at
UrlStarts(url) == {j \in 1..Len(url) : RepoLen(url, j) > 0}

parse_github_url(url) ==
    IF UrlStarts(url) = {}
    THEN [ok |-> FALSE, owner |-> "", repo |-> "", clone_url |-> <<>>, branch |-> NoBranch]
    ELSE MatchedAt(url, First(UrlStarts(url)))

-----------------------------------------------------------------------------
(* The repositories analysed: files put together from a vocabulary of      *)
(* lines, and workspaces put together from a catalog of files.             *)

\* "\n".join(lines)
RECURSIVE JoinLines(_)
JoinLines(lines) ==
    IF lines = <<>> THEN <<>>
    ELSE IF Len(lines) = 1 THEN lines[1]
    ELSE lines[1] \o <<NL>> \o JoinLines(Tail(lines))

\* a text file: its lines, each ended by a newline
Text(lines) == IF lines = <<>> THEN <<>> ELSE JoinLines(lines) \o <<NL>>

OsSystemLine == <<IND, "os.system", "(", "cmd", ")">>
PasswordLine == <<"password", SP, "=", SP, "'hunter2'">>

AppPy ==
    File(Path(<<>>, "app", ".py"),
         Text(<< <<"import", SP, "os">>, <<"def", SP, "run", "(", "cmd", ")", ":">>,
                 OsSystemLine, PasswordLine >>),
         TRUE, NoJson)

BadPy ==
    File(Path(<<"src">>, "bad", ".py"),
         Text(<< <<"exec", "(", "x", ")">>, <<"eval", "(", "x", ")">>,
                 <<"os.system", SP, "(", "x", ")">>, PasswordLine,
                 <<"md5", "(", "x", ")">>, <<"sha1", "(", "x", ")">>,
                 <<"except", ":">>, <<IND, "pass">>, <<"print", "(", "x", ")">>,
                 <<"#", SP, "TODO">>, <<"DEBUG", SP, "=", SP, "True">>,
                 <<"global", SP, "x">> >>),
         TRUE, NoJson)

TestPy ==
    File(Path(<<"tests">>, "test_app", ".py"),
         Text(<< <<"def", SP, "test_app", "(", ")", ":">>, <<IND, "pass">>,
                 <<>>, <<"test_app", "(", ")">> >>),
         TRUE, NoJson)

IndexJs ==
    File(Path(<<"web">>, "index", ".js"),
         Text(<< <<"console.log", "(", "x", ")", ";">>, <<"eval", "(", "x", ")", ";">> >>),
         TRUE, NoJson)

VendoredJs ==
    File(Path(<<"node_modules", "dep">>, "index", ".js"),
         Text(<< <<"eval", "(", "x", ")", ";">> >>), TRUE, NoJson)

MinJs ==
    File(Path(<<>>, "app.min", ".js"), Text(<< <<"eval", "(", "x", ")", ";">> >>),
         TRUE, NoJson)

\* a dangling symbolic link: listed by the walk, open() fails on it
BrokenPy == File(Path(<<>>, "broken", ".py"), <<>>, FALSE, NoJson)

ReadmeMd ==
    File(Path(<<>>, "README", ".md"),
         Text(<< <<"#", SP, "Installation">>, <<LONG, SP, LONG>>, <<"#", SP, "Usage">>,
                 <<FENCE>>, <<LONG, SP, LONG>>, <<FENCE>>, <<"#", SP, "License">>,
                 <<LONG>> >>),
         TRUE, NoJson)

ReadmePlain ==
    File(Path(<<>>, "README", ""), Text(<< <<"#", SP, "Usage">>, <<"run", SP, "it">> >>),
         TRUE, NoJson)

Dep(dep, version) == [dep |-> dep, version |-> version]

PackageJson ==
    File(Path(<<>>, "package", ".json"),
         Text(<< <<"{", "\"dependencies\"", ":", SP, "{", "}", "}">> >>), TRUE,
         Json(TRUE, <<Dep("lodash", <<"*">>), Dep("express", <<"^", "0", ".1">>)>>,
              <<Dep("jest", <<"latest">>), Dep("mocha", <<"1.0.0">>)>>))

RequirementsTxt ==
    File(Path(<<>>, "requirements", ".txt"),
         Text(<< <<"flask">>, <<"requests", "==", "2.0">>, <<"#", SP, "pinned">> >>),
         TRUE, NoJson)

\* the catalog, in the order the walk lists it: the root first, then the directories
Catalog == <<ReadmeMd, ReadmePlain, PackageJson, RequirementsTxt, AppPy, BrokenPy, MinJs,
             VendoredJs, BadPy, TestPy, IndexJs>>

MaxFiles == 2

\* the workspaces of at most MaxFiles files
Workspaces ==
    {SelectSeq([k \in 1..Len(Catalog) |-> k], LAMBDA k : k \in S) :
       S \in {T \in SUBSET (1..Len(Catalog)) : Cardinality(T) <= MaxFiles}}

FilesOf(workspace) == [k \in 1..Len(workspace) |-> Catalog[workspace[k]]]

\* the paths git log prints for the last commits: the first file of the workspace changed
\* in 11 commits, the second in 6, the others in one
LogOf(files) ==
    Flatten([k \in 1..Len(files) |->
               Repeat(<<Components(files[k].path)>>,
                      IF k = 1 THEN 11 ELSE IF k = 2 THEN 6 ELSE 1)])

-----------------------------------------------------------------------------
(* analyze_repository as a state machine.  detect_tech_stack and the       *)
(* analyzed_at timestamp feed only the tech_stack and analyzed_at fields   *)
(* of the result and are left out.                                         *)

VARIABLES
    remote,         \* the repository GitHub serves: the files of its tree (a workspace)
    request,        \* the arguments of the call in progress or last made
    pc,             \* the step analyze_repository is at
    temp_dir,       \* self.temp_dir: <<>> for None, else <<the directory>>
    disk,           \* the temporary directories that exist
    frame,          \* the local variables of analyze_repository
    pending,        \* the exception propagating, or the value being returned
    outcome,        \* how the last call ended: <<>> before any call has ended
    previous,       \* the summary and scores the call before the last one returned
    runs,           \* the number of calls made
    clone_started,  \* whether the git clone subprocess of this call was started
    recent_reviews, \* the endpoint module's dictionary of stored reviews
    response,       \* <<>>, or <<the HTTP response the last request got>>
    history,        \* the reviews that have ended, oldest first, each with its cause
    call,           \* the arguments given to the function applied on its own
    ret,            \* <<>>, then <<the value it returned>>
    services,       \* two CodeReviewService objects at work at once: each one's step
    tmp             \* the temporary directories on disk when they work, and what they hold

vars == <<remote, request, pc, temp_dir, disk, frame, pending, outcome, previous, runs,
          clone_started, recent_reviews, response, history, call, ret, services, tmp>>

pair == <<services, tmp>>

\* no two services at work at once
NoPair == services = <<>> /\ tmp = <<>>

pipeline == <<remote, request, pc, temp_dir, disk, frame, pending, outcome, previous, runs,
              clone_started, recent_reviews, response, history>>

MaxRuns == 2

GitHub == <<"https://", "github.com", "/", "octo", "/", "repo">>

Urls == {GitHub \o <<".git">>,
         <<"https://", "github.com", "/", "octo", "/", "other">>,
         GitHub \o <<"/", "tree", "/", "dev">>,
         <<"https://", "gitlab.com", "/", "octo", "/", "repo">>,
         <<"https://", "github.com", "/", "octo">>}

\* the branches of the remote; its default branch is the first
Branches == <<"main", "dev">>

Requests == [github_url : Urls, branch : {NoBranch, <<"gone">>}]

NoRequest == [github_url |-> <<>>, branch |-> NoBranch]

\* no exception propagating
NoError == [kind |-> "none", message |-> ""]
ValueError(message) == [kind |-> "ValueError", message |-> message]
Exception(message) == [kind |-> "Exception", message |-> message]
Return == [kind |-> "return", message |-> ""]

EmptyDict == [k \in {} |-> 0]

\* a variant of Locals in which the issue list outlives the call
LocalsCarried ==
    [all_issues |-> IF outcome # <<>> /\ outcome[1].result # <<>>
                    THEN outcome[1].result[1].issues ELSE <<>>,
     languages |-> EmptyDict, total_files |-> 0, total_lines |-> 0,
     file_reports |-> <<>>, all_functions |-> <<>>, total_complexity |-> 0]

\* the local variables as lines 937-944 initialise them
Locals ==
    [all_issues |-> <<>>, languages |-> EmptyDict, total_files |-> 0, total_lines |-> 0,
     file_reports |-> <<>>, all_functions |-> <<>>, total_complexity |-> 0]

NoResult == <<>>

NoFrame ==
    [owner |-> "", repo_name |-> "", clone_url |-> <<>>, url_branch |-> NoBranch,
     target_branch |-> NoBranch, i |-> 0, locals |-> Locals,
     test_metrics |-> [test_files |-> 0, test_lines |-> 0, source_lines |-> 0],
     readme |-> [score |-> 0, issues |-> <<>>], git_log |-> "", hot_files |-> <<>>,
     result |-> NoResult, failure |-> "none"]

\* a or b, for branches
Or(a, b) == IF a # NoBranch THEN a ELSE b

\* target_branch = branch or url_branch or "main"
TargetBranch(branch, url_branch) == Or(branch, Or(url_branch, <<"main">>))

\* the branch clone_repository is called with: None unless a branch was asked for
CloneBranch(branch, url_branch) ==
    IF Or(branch, url_branch) # NoBranch THEN TargetBranch(branch, url_branch) ELSE NoBranch

\* a variant of InvalidUrl that lets every URL through
NeverInvalid(parsed) == NoError

\* the exception parse_github_url ends with
InvalidUrl(parsed) ==
    IF parsed.ok THEN NoError ELSE ValueError("Invalid GitHub URL")

\* a variant of cleanup that removes nothing
cleanup_skipped(dir, dirs) == dirs

\* cleanup(): the directories left on disk
cleanup(dir, dirs) ==
    IF dir # <<>> /\ dir[1] \in dirs THEN dirs \ {dir[1]} ELSE dirs

\* a variant of file_health without the clamp at 0
file_health_unclamped(analysis) == 100 - Len(analysis.issues) * 10

file_health(analysis) == Max(0, 100 - Len(analysis.issues) * 10)

FileReport(analysis) ==
    [file_path |-> analysis.file_path, language |-> analysis.language,
     lines_of_code |-> analysis.lines_of_code, issues_count |-> Len(analysis.issues),
     health_score |-> file_health(analysis),
     issues |-> [k \in 1..Len(analysis.issues) |->
                   [line |-> analysis.issues[k].line_number,
                    severity |-> analysis.issues[k].severity,
                    title |-> analysis.issues[k].title]]]

\* languages[language] = languages.get(language, 0) + n
AddTo(dict, key, n) ==
    [k \in DOMAIN dict \cup {key} |->
       (IF k \in DOMAIN dict THEN dict[k] ELSE 0) + (IF k = key THEN n ELSE 0)]

\* the body of the loop over the files, for one analysed file
Accumulate(locals, analysis) ==
    [all_issues |-> locals.all_issues \o analysis.issues,
     languages |-> AddTo(locals.languages, analysis.language, analysis.lines_of_code),
     total_files |-> locals.total_files + 1,
     total_lines |-> locals.total_lines + analysis.lines_of_code,
     file_reports |-> Append(locals.file_reports, FileReport(analysis)),
     all_functions |-> locals.all_functions \o analysis.functions,
     total_complexity |-> locals.total_complexity + analysis.total_complexity]

severity_order(issue) ==
    CASE issue.severity = "critical" -> 0
      [] issue.severity = "high" -> 1
      [] issue.severity = "medium" -> 2
      [] issue.severity = "low" -> 3
      [] issue.severity = "info" -> 4
      [] OTHER -> 5

Top(s, n) == SubSeq(s, 1, Min(n, Len(s)))

\* a variant of TopFileReports that cuts the list before it sorts it
FirstFiftySorted(file_reports) ==
    SortedBy(Top(file_reports, 50),
             [k \in 1..Min(50, Len(file_reports)) |-> file_reports[k].issues_count], TRUE)

\* file_reports_list[:50]: the reports sorted by issues_count, largest first, and the
\* first 50 of them
TopFileReports(file_reports) ==
    Top(SortedBy(file_reports,
                 [k \in 1..Len(file_reports) |-> file_reports[k].issues_count], TRUE), 50)

\* the ReviewResult built at lines 998-1083
ReviewResult(req, f) ==
    LET all_issues == f.locals.all_issues
        summary == Summary(all_issues)
        metrics == complexity_metrics(f.locals.all_functions)
    IN [repository_url |-> req.github_url,
        repository_name |-> <<f.owner, "/", f.repo_name>>,
        branch |-> f.target_branch,
        total_files |-> f.locals.total_files,
        total_lines |-> f.locals.total_lines,
        languages |-> f.locals.languages,
        summary |-> summary,
        issues |-> SortedBy(all_issues,
                            [k \in 1..Len(all_issues) |-> severity_order(all_issues[k])],
                            FALSE),
        metrics |-> [issues_per_1000_lines |->
                        issues_per_1000_lines(Len(all_issues), f.locals.total_lines),
                     security_score |-> calculate_security_score(summary),
                     quality_score |-> calculate_quality_score(summary, f.locals.total_lines),
                     test_metrics |-> f.test_metrics,
                     readme_score |-> f.readme.score,
                     readme_issues |-> f.readme.issues],
        recommendations |->
            generate_recommendations(
                \E k \in 1..Len(all_issues) : TitleHasHardcoded(all_issues[k].title),
                summary, DOMAIN f.locals.languages, f.test_metrics, f.readme.score, metrics),
        file_reports |-> TopFileReports(f.locals.file_reports),
        documentation_score |-> f.readme.score,
        test_coverage_estimate |-> CoverageTenths(f.test_metrics),
        complexity_metrics |-> metrics,
        hot_files |-> f.hot_files]

\* what a call that ended left for its caller
Outcome(p, result) == [kind |-> p.kind, message |-> p.message, result |-> result]

\* the fields of a result that two runs are compared on
Digest(o) ==
    IF o = <<>> \/ o[1].result = NoResult THEN <<>>
    ELSE <<[summary |-> o[1].result[1].summary,
            security_score |-> o[1].result[1].metrics.security_score,
            quality_score |-> o[1].result[1].metrics.quality_score,
            issues_per_1000_lines |-> o[1].result[1].metrics.issues_per_1000_lines]>>

Files == FilesOf(remote)

-----------------------------------------------------------------------------
(* The endpoints over analyze_repository.                                  *)

\* an HTTP response: the status, the detail of an HTTPException, the content sent
Ok(content) == [status |-> 200, detail |-> <<>>, content |-> <<content>>]
HTTPException(status_code, detail) ==
    [status |-> status_code, detail |-> detail, content |-> <<>>]

\* a variant of Stored that keeps the review it already has under the name
StoredIfAbsent(reviews, p, result) ==
    IF p.kind # "return" \/ result[1].repository_name \in DOMAIN reviews THEN reviews
    ELSE [k \in DOMAIN reviews \cup {result[1].repository_name} |->
            IF k = result[1].repository_name THEN result[1] ELSE reviews[k]]

\* a variant of Stored that forgets every review when analyze_repository raised
StoredOrForgotten(reviews, p, result) ==
    IF p.kind # "return" THEN [k \in {} |-> 0]
    ELSE [k \in DOMAIN reviews \cup {result[1].repository_name} |->
            IF k = result[1].repository_name THEN result[1] ELSE reviews[k]]

\* recent_reviews[result.repository_name] = response_data, when analyze_repository
\* returned
Stored(reviews, p, result) ==
    IF p.kind # "return" THEN reviews
    ELSE [k \in DOMAIN reviews \cup {result[1].repository_name} |->
            IF k = result[1].repository_name THEN result[1] ELSE reviews[k]]

\* the response of review_github_repository
ReviewResponse(p, result) ==
    CASE p.kind = "return" -> Ok(result[1])
      [] p.kind = "ValueError" -> HTTPException(400, <<p.message>>)
      [] OTHER -> HTTPException(500, <<"Failed to analyze repository: ", p.message>>)

\* the issues of one severity, at most 20 of them
IssuesOf(issues, severity) ==
    Top(SelectSeq(issues, LAMBDA issue : issue.severity = severity), 20)

\* the report in Markdown, section by section
generate_markdown_report(result) ==
    [title |-> result.repository_name, branch |-> result.branch,
     repository_url |-> result.repository_url,
     total_files |-> result.total_files, total_lines |-> result.total_lines,
     total_issues |-> result.summary.critical + result.summary.high
                        + result.summary.medium + result.summary.low + result.summary.info,
     summary |-> result.summary,
     security_score |-> result.metrics.security_score,
     quality_score |-> result.metrics.quality_score,
     documentation_score |-> result.documentation_score,
     test_coverage_estimate |-> result.test_coverage_estimate,
     languages |-> result.languages,
     complexity_metrics |-> result.complexity_metrics,
     hot_files |-> Top(result.hot_files, 10),
     recommendations |-> result.recommendations,
     issues |-> [severity \in {"critical", "high", "medium", "low", "info"} |->
                   IssuesOf(result.issues, severity)],
     file_reports |-> Top(result.file_reports, 20)]

export_review(reviews, repo_owner, repo_name, format) ==
    IF <<repo_owner, "/", repo_name>> \notin DOMAIN reviews
    THEN HTTPException(404, <<"No recent review found for ", repo_owner, "/", repo_name>>)
    ELSE IF format = "markdown"
         THEN Ok(generate_markdown_report(reviews[<<repo_owner, "/", repo_name>>]))
         ELSE Ok(reviews[<<repo_owner, "/", repo_name>>])

\* the names export is asked for
ExportNames == {<<"octo", "repo">>, <<"octo", "other">>, <<"Octo", "repo">>}

\* what is written down of a review that has ended: the repository it named, the
\* failure that ended it or "none", the error raised or the return, and the result
Ended(f, p) ==
    [name |-> <<f.owner, "/", f.repo_name>>, failure |-> f.failure, kind |-> p.kind,
     message |-> p.message, result |-> f.result]

Idle ==
    /\ request = NoRequest /\ pc = "idle" /\ temp_dir = <<>> /\ disk = {}
    /\ outcome = <<>> /\ previous = <<>> /\ pending = NoError /\ frame = NoFrame
    /\ runs = 0 /\ clone_started = FALSE
    /\ recent_reviews = EmptyDict /\ response = <<>> /\ history = <<>>

Init ==
    /\ remote \in Workspaces
    /\ Idle
    /\ call = <<>> /\ ret = <<>> /\ NoPair

\* review_github_repository: a new CodeReviewService, and analyze_repository called on it
Request(req) ==
    /\ pc = "idle" /\ runs < MaxRuns
    /\ request' = req
    /\ runs' = runs + 1
    /\ temp_dir' = <<>>
    /\ clone_started' = FALSE
    /\ pc' = "parse"
    /\ response' = <<>>
    /\ UNCHANGED <<remote, disk, frame, pending, outcome, previous, recent_reviews, history,
                   call, ret, pair>>

\* lines 932-933 for the value parse_github_url returned or the exception it raised
Parsed(parsed, error) ==
    IF error = NoError
    THEN /\ frame' = [frame EXCEPT !.owner = parsed.owner, !.repo_name = parsed.repo,
                                   !.clone_url = parsed.clone_url,
                                   !.url_branch = parsed.branch,
                                   !.target_branch =
                                      TargetBranch(request.branch, parsed.branch)]
         /\ pc' = "clone"
         /\ UNCHANGED pending
    ELSE /\ pending' = error
         /\ pc' = "finally"
         /\ frame' = [frame EXCEPT !.failure = "invalid url"]

ParseUrl ==
    /\ pc = "parse"
    /\ Parsed(parse_github_url(request.github_url),
              InvalidUrl(parse_github_url(request.github_url)))
    /\ UNCHANGED <<remote, request, temp_dir, disk, outcome, previous, runs, clone_started,
                   recent_reviews, response, history, call, ret, pair>>

\* how git clone can end: it succeeds only for a branch the remote has
CloneResults(branch) ==
    {"failed", "timeout", "no git"}
      \cup (IF branch = NoBranch \/ branch[1] \in Range(Branches) THEN {"ok"} ELSE {})

CloneError(result) ==
    CASE result = "failed" -> Exception("Failed to clone repository")
      [] result = "timeout" -> Exception("Repository clone timed out")
      [] result = "no git" -> Exception("Git is not installed or not in PATH")
      [] OTHER -> NoError

\* clone_repository: mkdtemp, then the clone subprocess; then the locals are set up
Clone ==
    /\ pc = "clone"
    /\ temp_dir' = <<runs>>
    /\ disk' = disk \cup {runs}
    /\ \E result \in CloneResults(CloneBranch(request.branch, frame.url_branch)) :
         /\ clone_started' = (result # "no git")
         /\ IF result = "ok"
            THEN /\ frame' = [frame EXCEPT !.i = 1, !.locals = Locals]
                 /\ pc' = "walk"
                 /\ UNCHANGED pending
            ELSE /\ pending' = CloneError(result)
                 /\ pc' = "finally"
                 /\ frame' = [frame EXCEPT !.failure = result]
    /\ UNCHANGED <<remote, request, outcome, previous, runs, recent_reviews, response,
                   history, call, ret, pair>>

\* the locals after the walk has met a file: a file in a pruned directory is never
\* listed, an ignored file is skipped, a file analyze_file gives None for adds nothing
Walked(locals, file, analysis) ==
    IF Pruned(file) \/ should_ignore(Components(file.path)) \/ analysis = <<>>
    THEN locals
    ELSE Accumulate(locals, analysis[1])

\* one file of the walk
WalkFile ==
    /\ pc = "walk" /\ frame.i <= Len(Files)
    /\ frame' = [frame EXCEPT !.i = @ + 1,
                              !.locals = Walked(@, Files[frame.i],
                                                analyze_file(Files[frame.i]))]
    /\ UNCHANGED <<remote, request, pc, temp_dir, disk, pending, outcome, previous, runs,
                   clone_started, recent_reviews, response, history, call, ret, pair>>

CheckDependencies ==
    /\ pc = "walk" /\ frame.i > Len(Files)
    /\ frame' = [frame EXCEPT !.locals.all_issues = @ \o check_dependencies(Files)]
    /\ pc' = "test_coverage"
    /\ UNCHANGED <<remote, request, temp_dir, disk, pending, outcome, previous, runs,
                   clone_started, recent_reviews, response, history, call, ret, pair>>

EstimateTestCoverage ==
    /\ pc = "test_coverage"
    /\ frame' = [frame EXCEPT !.test_metrics = estimate_test_coverage(Files)]
    /\ pc' = "readme"
    /\ UNCHANGED <<remote, request, temp_dir, disk, pending, outcome, previous, runs,
                   clone_started, recent_reviews, response, history, call, ret, pair>>

CheckReadme ==
    /\ pc = "readme"
    /\ frame' = [frame EXCEPT !.readme = check_readme(Files)]
    /\ pc' = "hot_files"
    /\ UNCHANGED <<remote, request, temp_dir, disk, pending, outcome, previous, runs,
                   clone_started, recent_reviews, response, history, call, ret, pair>>

GetHotFiles ==
    /\ pc = "hot_files"
    /\ \E git \in {"ok", "failed", "timeout", "no git"} :
         frame' = [frame EXCEPT !.git_log = git,
                                !.hot_files = get_git_hot_files(git, LogOf(Files))]
    /\ pc' = "assemble"
    /\ UNCHANGED <<remote, request, temp_dir, disk, pending, outcome, previous, runs,
                   clone_started, recent_reviews, response, history, call, ret, pair>>

\* the summary, the metrics, the recommendations, the sorts and the return statement
Assemble ==
    /\ pc = "assemble"
    /\ frame' = [frame EXCEPT !.result = <<ReviewResult(request, frame)>>]
    /\ pending' = Return
    /\ pc' = "finally"
    /\ UNCHANGED <<remote, request, temp_dir, disk, outcome, previous, runs, clone_started,
                   recent_reviews, response, history, call, ret, pair>>

\* an exception that no step handles (a MemoryError, an interrupt) leaves the try block
Raise ==
    /\ pc \in {"walk", "test_coverage", "readme", "hot_files", "assemble"}
    /\ pending' = Exception("raised during the analysis")
    /\ frame' = [frame EXCEPT !.failure = "raised"]
    /\ pc' = "finally"
    /\ UNCHANGED <<remote, request, temp_dir, disk, outcome, previous, runs,
                   clone_started, recent_reviews, response, history, call, ret, pair>>

\* the finally clause, and the call ends: its locals and its service object are gone;
\* then the rest of review_github_repository, which stores the result and answers
Finally ==
    /\ pc = "finally"
    /\ disk' = cleanup(temp_dir, disk)
    /\ outcome' = <<Outcome(pending, frame.result)>>
    /\ previous' = IF Digest(outcome) # <<>> THEN Digest(outcome) ELSE previous
    /\ temp_dir' = <<>>
    /\ frame' = NoFrame
    /\ pending' = NoError
    /\ pc' = "idle"
    /\ recent_reviews' = Stored(recent_reviews, pending, frame.result)
    /\ response' = <<ReviewResponse(pending, frame.result)>>
    /\ history' = Append(history, Ended(frame, pending))
    /\ UNCHANGED <<remote, request, runs, clone_started, call, ret, pair>>

\* GET /export/{repo_owner}/{repo_name}?format=...
ExportReview(repo_owner, repo_name, format) ==
    /\ pc = "idle"
    /\ response' = <<export_review(recent_reviews, repo_owner, repo_name, format)>>
    /\ UNCHANGED <<remote, request, pc, temp_dir, disk, frame, pending, outcome, previous,
                   runs, clone_started, recent_reviews, history, call, ret, pair>>

Next ==
    \/ \E req \in Requests : Request(req)
    \/ ParseUrl
    \/ Clone
    \/ WalkFile
    \/ CheckDependencies
    \/ EstimateTestCoverage
    \/ CheckReadme
    \/ GetHotFiles
    \/ Assemble
    \/ Raise
    \/ Finally
    \/ \E name \in ExportNames, format \in {"json", "markdown"} :
           ExportReview(name[1], name[2], format)

Spec == Init /\ [][Next]_vars

-----------------------------------------------------------------------------
(* Properties of analyze_repository.                                       *)

\* the last call returned a ReviewResult
Returned == pc = "idle" /\ outcome # <<>> /\ outcome[1].result # NoResult

Result == outcome[1].result[1]

SumCounts(s) == s.critical + s.high + s.medium + s.low + s.info

Occurrences(s, x) == Cardinality({k \in 1..Len(s) : s[k] = x})

\* the issues of the files the walk analyses, then those of the manifests
DetectedIssues ==
    Flatten([k \in 1..Len(Files) |->
               LET analysis == analyze_file(Files[k]) IN
               IF \/ Pruned(Files[k]) \/ should_ignore(Components(Files[k].path))
                  \/ analysis = <<>>
               THEN <<>> ELSE analysis[1].issues])
      \o check_dependencies(Files)

\* C1: in every ReviewResult the five summary counts add up to the length of the
\* issues list, and that list holds every per-file issue and every dependency issue,
\* each as often as it was detected.
C1_SummaryCountsEveryIssue ==
    Returned =>
        LET detected == DetectedIssues IN
        /\ SumCounts(Result.summary) = Len(Result.issues)
        /\ Len(Result.issues) = Len(detected)
        /\ \A x \in Range(detected) :
              Occurrences(Result.issues, x) = Occurrences(detected, x)

C1_Witness ==
    /\ Returned
    /\ Result.summary.info > 0 /\ Result.summary.critical > 0
    /\ \E k \in 1..Len(Result.issues) : Result.issues[k].category = "dependency"
    /\ \E k \in 1..Len(Result.issues) : Result.issues[k].category = "security"

\* C2: every file report of a ReviewResult has a health score between 0 and 100
\* that equals max(0, 100 - 10 * issues_count), issues_count being the number of
\* issues found in the file.
C2_FileHealthClamped ==
    Returned =>
        \A k \in 1..Len(Result.file_reports) :
            LET r == Result.file_reports[k] IN
            /\ r.issues_count = Len(r.issues)
            /\ 0 <= r.health_score /\ r.health_score <= 100
            /\ r.health_score = (IF r.issues_count >= 10 THEN 0
                                 ELSE 100 - 10 * r.issues_count)

C2_Witness ==
    /\ Returned
    /\ \E k \in 1..Len(Result.file_reports) :
          Result.file_reports[k].issues_count > 10 /\ Result.file_reports[k].health_score = 0
    /\ \E k \in 1..Len(Result.file_reports) :
          Result.file_reports[k].issues_count \in 1..9

Unrecognised == runs > 0 /\ ~parse_github_url(request.github_url).ok

\* C6: when the URL matches no owner/repo pattern, the call goes from parsing straight
\* to its end with the invalid-URL error: no temporary directory is created and no
\* clone subprocess is started.
C6_InvalidUrlFailsBeforeClone ==
    (Unrecognised /\ pc # "parse") =>
        /\ pc \in {"finally", "idle"}
        /\ temp_dir = <<>> /\ runs \notin disk /\ ~clone_started
        /\ pc = "finally" => pending = ValueError("Invalid GitHub URL")
        /\ pc = "idle" => outcome[1] = Outcome(ValueError("Invalid GitHub URL"), NoResult)

C6_Witness ==
    /\ Unrecognised /\ pc = "idle"
    /\ outcome[1].kind = "ValueError" /\ disk = {} /\ ~clone_started

\* C7: two calls that both return a result over the same repository contents return
\* the same summary counts, security score, quality score and issues per 1000 lines,
\* whatever was requested and whatever happened in between.
C7_RunsAgree ==
    (pc = "idle" /\ previous # <<>> /\ Digest(outcome) # <<>>) => Digest(outcome) = previous

C7_Witness ==
    /\ pc = "idle" /\ previous # <<>> /\ Digest(outcome) = previous
    /\ SumCounts(previous[1].summary) > 2
    /\ previous[1].security_score < 100

\* the root of the repository holds none of the README variants
NoReadmeAtRoot ==
    \A k \in 1..Len(Files) :
        ~(/\ Files[k].path.dirs = <<>>
          /\ Files[k].path.stem \o Files[k].path.suffix \in Range(readme_files))

\* C9: when the root of the repository holds none of the README variants, the result
\* has a documentation score of 0 and "No README file found" among its README issues.
C9_NoReadmeScoresZero ==
    (Returned /\ NoReadmeAtRoot) =>
        /\ Result.documentation_score = 0
        /\ "No README file found" \in Range(Result.metrics.readme_issues)

C9_Witness ==
    /\ Returned /\ NoReadmeAtRoot /\ Result.total_files > 0
    /\ Result.documentation_score = 0

-----------------------------------------------------------------------------
(* The functions applied on their own: Init draws the arguments, the one   *)
(* action applies the function.  No call of analyze_repository is made.    *)

NoPipeline == remote = <<>> /\ Idle

\* the largest count of issues of one severity
MaxCount == 3

LineCounts == {0, 1, 100, 101, 250, 1000, 100000}

ScoreInputs ==
    [summary : [critical : 0..MaxCount, high : 0..MaxCount, medium : 0..MaxCount,
                low : 0..MaxCount, info : 0..MaxCount],
     total_lines : LineCounts]

InitScore == NoPipeline /\ NoPair /\ call \in ScoreInputs /\ ret = <<>>

Score ==
    /\ ret = <<>>
    /\ ret' = <<[security_score |-> calculate_security_score(call.summary),
                 quality_score |-> calculate_quality_score(call.summary, call.total_lines)]>>
    /\ UNCHANGED <<pipeline, call, pair>>

SpecScore == InitScore /\ [][Score]_vars

\* C3: for every combination of severity counts and every total line count, 0 lines
\* and 0 issues included, the security score and the quality score lie in [0, 100].
C3_ScoresInRange ==
    ret # <<>> =>
        /\ 0 <= ret[1].security_score /\ ret[1].security_score <= 100
        /\ 0 <= ret[1].quality_score /\ ret[1].quality_score <= 100

C3_Witness ==
    /\ ret # <<>>
    /\ call.total_lines = 0
    /\ call.summary.critical * 25 + call.summary.high * 15 > 100
    /\ SumCounts(call.summary) > 10
    /\ ret[1].security_score = 0 /\ ret[1].quality_score = 0

LanguagesSeen == {"python", "javascript", "typescript", "go"}

\* test_lines out of 10 source lines: estimates of 0, 40 and 100 percent
Coverages == {[test_files |-> 1, test_lines |-> t, source_lines |-> 10] : t \in {0, 2, 5}}

ReadmeScores == {0, 49, 50, 100}

FunctionCounts == {0, 5, 6}

RecInputs ==
    [has_hardcoded : BOOLEAN, critical : 0..1, high : 0..1, languages : SUBSET LanguagesSeen,
     coverage : Coverages, readme_score : ReadmeScores,
     complex_functions : FunctionCounts, long_functions : FunctionCounts]

InitRec == NoPipeline /\ NoPair /\ call \in RecInputs /\ ret = <<>>

Recommend ==
    /\ ret = <<>>
    /\ ret' = <<generate_recommendations(
                  call.has_hardcoded,
                  [critical |-> call.critical, high |-> call.high, medium |-> 0, low |-> 0,
                   info |-> 0],
                  call.languages, call.coverage, call.readme_score,
                  [total_functions |-> call.complex_functions + call.long_functions,
                   long_functions |-> call.long_functions,
                   complex_functions |-> call.complex_functions])>>
    /\ UNCHANGED <<pipeline, call, pair>>

SpecRec == InitRec /\ [][Recommend]_vars

\* the number of recommendation rules that fire for the arguments
RulesFired ==
    Cardinality(
        {r \in {"critical", "high", "hardcoded", "coverage", "readme", "complex", "long",
                "python", "js"} :
           CASE r = "critical" -> call.critical > 0
             [] r = "high" -> call.high > 0
             [] r = "hardcoded" -> call.has_hardcoded
             [] r = "coverage" -> call.coverage.test_lines < 3
             [] r = "readme" -> call.readme_score < 50
             [] r = "complex" -> call.complex_functions > 5
             [] r = "long" -> call.long_functions > 5
             [] r = "python" -> "python" \in call.languages
             [] r = "js" -> call.languages \cap {"javascript", "typescript"} # {}})

\* C4: whatever combination of recommendation rules fires, all of them and none of
\* them included, the recommendations list has at least 1 and at most 8 entries.
C4_RecommendationsBounded ==
    ret # <<>> => (1 <= Len(ret[1]) /\ Len(ret[1]) <= 8)

C4_Witness ==
    ret # <<>> /\ RulesFired = 9 /\ Len(ret[1]) = 8

\* the lines source files are put together from
SourceLines ==
    {OsSystemLine, <<"os.system", SP, "(", "x", ")">>, <<"OS.SYSTEM", "(", "x", ")">>,
     <<"f", SP, "=", SP, "os.system">>, PasswordLine, <<>>,
     <<"print", "(", "x", ")">>, <<"def", SP, "f", "(", ")", ":">>}

\* the largest number of lines of a source file
MaxLines == 3

SourceTexts == UNION {[1..n -> SourceLines] : n \in 0..MaxLines}

SourcePaths == {Path(<<>>, "app", ".py"), Path(<<"src">>, "app", ".PY"),
                Path(<<>>, "app", ".js")}

\* the files: each text with and without a final newline, under each path
SourceFiles ==
    {File(p, t, TRUE, NoJson) :
       p \in SourcePaths, t \in {JoinLines(ls) : ls \in SourceTexts}
                                  \cup {Text(ls) : ls \in SourceTexts}}

InitFile == NoPipeline /\ NoPair /\ call \in SourceFiles /\ ret = <<>>

AnalyzeFile ==
    /\ ret = <<>>
    /\ ret' = <<analyze_file(call)>>
    /\ UNCHANGED <<pipeline, call, pair>>

SpecFile == InitFile /\ [][AnalyzeFile]_vars

\* the line holds a call written os.system( with any blanks before the parenthesis
HasOsSystemCall(line) ==
    \E j \in 1..Len(line) : \E k \in (j + 1)..Len(line) :
        /\ line[j] = "os.system" /\ line[k] = "("
        /\ \A m \in (j + 1)..(k - 1) : line[m] \in WS

\* the numbers of the lines of the file that hold such a call
OsSystemCalls == {n \in 1..Len(Split(call.content)) : HasOsSystemCall(Split(call.content)[n])}

IsCommandInjection(issue, n) ==
    /\ issue.line_number = n
    /\ issue.category = "security" /\ issue.severity = "high"
    /\ issue.title = <<"Command injection risk">>

\* C8: for every line n of a Python file that holds an os.system( call, analyze_file
\* returns an analysis with an issue at line n of category security and severity
\* high whose title names the command injection risk.
C8_OsSystemReported ==
    (ret # <<>> /\ get_language(call.path) = "python") =>
        /\ ret[1] # <<>>
        /\ \A n \in OsSystemCalls :
              \E k \in 1..Len(ret[1][1].issues) : IsCommandInjection(ret[1][1].issues[k], n)

C8_Witness ==
    /\ ret # <<>> /\ ret[1] # <<>>
    /\ call.path.suffix = ".PY"
    /\ OsSystemCalls = {1, 3}
    /\ \A n \in {1, 3} :
          \E k \in 1..Len(ret[1][1].issues) : IsCommandInjection(ret[1][1].issues[k], n)

DepNames == {"lodash", "jest"}

Versions == {<<"*">>, <<"latest">>, <<"^", "0", ".1">>, <<"4.17.21">>, NotAString}

\* the largest number of entries of a section of package.json
MaxDeps == 2

\* the sections: entries with distinct names, in the order written
Sections ==
    UNION {{s \in [1..n -> [dep : DepNames, version : Versions]] :
              \A i, j \in 1..n : i # j => s[i].dep # s[j].dep} : n \in 0..MaxDeps}

Manifests ==
    {<<File(Path(<<>>, "package", ".json"), <<"{", "}">>, TRUE, Json(TRUE, d, dd))>> \o r :
       d \in Sections, dd \in Sections, r \in {<<>>, <<RequirementsTxt>>}}
      \cup {<<File(Path(<<>>, "package", ".json"), <<"{">>, TRUE, NoJson), RequirementsTxt>>}

InitDeps == NoPipeline /\ NoPair /\ call \in Manifests /\ ret = <<>>

CheckManifests ==
    /\ ret = <<>>
    /\ ret' = <<check_dependencies(call)>>
    /\ UNCHANGED <<pipeline, call, pair>>

SpecDeps == InitDeps /\ [][CheckManifests]_vars

\* the entries of both sections of the package.json given
Entries == Range(call[1].json.dependencies) \cup Range(call[1].json.devDependencies)

NamesUnpinned(issue, dep) ==
    /\ issue.category = "dependency" /\ issue.severity = "high"
    /\ \E k \in 1..Len(issue.title) : issue.title[k] = dep

\* C10: for every entry of dependencies or devDependencies whose version is "*" or
\* "latest", check_dependencies returns exactly one issue of category dependency and
\* severity high whose title names that dependency.  Stated here for manifests in
\* which every version is a string.
C10_EveryUnpinnedEntryReported ==
    (ret # <<>> /\ \A e \in Entries : e.version # NotAString) =>
        \A e \in Entries :
            e.version \in {<<"*">>, <<"latest">>} =>
                Cardinality({k \in 1..Len(ret[1]) : NamesUnpinned(ret[1][k], e.dep)}) = 1

-----------------------------------------------------------------------------
(* Long functions: files of one or two Python functions whose lengths      *)
(* straddle the threshold of detect_long_functions.                        *)

DefLine(name) == <<"def", SP, name, "(", ")", ":">>
BodyLine == <<IND, "run", "(", "cmd", ")">>

\* the most lines before the first definition, and the longest span next to the threshold
MaxBefore == 2
MaxSpan == 52

\* the lines from a definition line to the line before the next definition or to
\* the end of the file
Spans == (49..MaxSpan) \cup {80}

\* a function of span lines after `before` lines of statements, followed by the end
\* of the file or by a second function of two lines
FunctionLines(before, span, followed) ==
    Repeat(<<BodyLine>>, before) \o <<DefLine("run")>> \o Repeat(<<BodyLine>>, span - 1)
      \o (IF followed THEN <<DefLine("f"), BodyLine>> ELSE <<>>)

\* each of them with and without a final newline
LongFiles ==
    {File(p, t, TRUE, NoJson) :
       p \in {Path(<<>>, "app", ".py"), Path(<<"src">>, "app", ".PY")},
       t \in UNION {{JoinLines(FunctionLines(b, n, f)), Text(FunctionLines(b, n, f))} :
                      b \in 0..MaxBefore, n \in Spans, f \in BOOLEAN}}

InitLong == NoPipeline /\ NoPair /\ call \in LongFiles /\ ret = <<>>

SpecLong == InitLong /\ [][AnalyzeFile]_vars

\* the lines of the text of the file: a final newline ends the last line
TextLines(content) ==
    IF content # <<>> /\ content[Len(content)] = NL
    THEN SubSeq(Split(content), 1, Len(Split(content)) - 1)
    ELSE Split(content)

\* the numbers of the lines that hold a definition
DefLines(lines) == {d \in 1..Len(lines) : StartsWith(lines[d], {"def"})}

\* the lines the function defined at line d spans
Span(lines, d) ==
    IF \E e \in DefLines(lines) : e > d
    THEN (CHOOSE e \in DefLines(lines) : e > d /\ \A m \in DefLines(lines) : m > d => e <= m) - d
    ELSE Len(lines) - d + 1

CitesLines(issue, d, n) ==
    /\ issue.category = "maintainability" /\ issue.line_number = d
    /\ issue.description = Desc("Function has {} lines (recommended < 50)", <<n>>, <<>>)

\* C11: for every function of a Python file that spans n > 50 lines, from its
\* definition line to the line before the next definition or to the end of the
\* file, analyze_file returns a maintainability issue at the definition line whose
\* description cites n and the threshold 50.
C11_LongFunctionCitesSpan ==
    (ret # <<>> /\ ret[1] # <<>>) =>
        \A d \in DefLines(TextLines(call.content)) :
            Span(TextLines(call.content), d) > 50 =>
                \E k \in 1..Len(ret[1][1].issues) :
                    CitesLines(ret[1][1].issues[k], d, Span(TextLines(call.content), d))

-----------------------------------------------------------------------------
(* Recovered failures.                                                     *)

\* the files of the workspace the walk reaches and maps to a language
Candidates ==
    {k \in 1..Len(Files) :
       /\ ~Pruned(Files[k]) /\ ~should_ignore(Components(Files[k].path))
       /\ get_language(Files[k].path) # None}

\* those of them that cannot be read, and the others
Unreadable == {k \in Candidates : ~Files[k].readable}
Others == Candidates \ Unreadable

ReportOf(file, report) ==
    /\ report.file_path = file.path
    /\ report.language = get_language(file.path)
    /\ report.lines_of_code = count_lines(Split(file.content), get_language(file.path)).code

\* C12: when a file of the walk cannot be read, the ReviewResult that
\* analyze_repository returns (the witness is such a return) holds no file report
\* and no issue of that file; total_files counts the
\* other files only, each of which has its report, and total_lines and languages
\* hold the code lines of the other files only.
C12_UnreadableFileSkipped ==
    (Returned /\ Unreadable # {}) =>
        /\ Result.total_files = Cardinality(Others)
        /\ Len(Result.file_reports) = Cardinality(Others)
        /\ \A k \in Others :
              \E r \in 1..Len(Result.file_reports) : ReportOf(Files[k], Result.file_reports[r])
        /\ \A k \in Unreadable :
              /\ \A r \in 1..Len(Result.file_reports) :
                    Result.file_reports[r].file_path # Files[k].path
              /\ \A n \in 1..Len(Result.issues) : Result.issues[n].file_path # Files[k].path
        /\ Result.total_lines =
              SumSeq([r \in 1..Len(Result.file_reports) |->
                        Result.file_reports[r].lines_of_code])
        /\ DOMAIN Result.languages = {get_language(Files[k].path) : k \in Others}

C12_Witness ==
    /\ Returned
    /\ Unreadable # {} /\ Others # {}
    /\ Result.total_files = 1 /\ Result.total_lines > 0
    /\ Len(Result.issues) > 0

\* analyze_repository is about to return the result it has built
Completed == pc = "finally" /\ pending = Return /\ frame.result # NoResult

Built == frame.result[1]

\* C13: when git log fails (a non-zero exit, a timeout, no git executable), the
\* analysis goes on without an error, and the ReviewResult it builds has an empty
\* hot_files list while its other fields are those of the files: the file count,
\* the file reports, every issue detected, the README score, the recommendations.
C13_GitLogFailureLeavesNoHotFiles ==
    /\ (pc = "assemble" /\ frame.git_log # "ok") =>
           pending = NoError /\ frame.hot_files = <<>>
    /\ (Completed /\ frame.git_log # "ok") =>
           /\ frame.git_log \in {"failed", "timeout", "no git"}
           /\ Built.hot_files = <<>>
           /\ Built.total_files = Cardinality(Others)
           /\ Len(Built.file_reports) = Cardinality(Others)
           /\ Len(Built.issues) = Len(DetectedIssues)
           /\ SumCounts(Built.summary) = Len(DetectedIssues)
           /\ Built.documentation_score = check_readme(Files).score
           /\ Built.recommendations # <<>>

C13_Witness ==
    /\ Completed /\ frame.git_log = "timeout"
    /\ Built.hot_files = <<>>
    /\ Built.total_files = 2 /\ Len(Built.issues) > 0
    /\ LogOf(Files) # <<>>

\* the value the loop over deps.items() meets for a name: the one of devDependencies
\* if the name is there, else the one of dependencies
Merged ==
    Range(call[1].json.devDependencies)
      \cup {e \in Range(call[1].json.dependencies) :
              \A o \in Range(call[1].json.devDependencies) : o.dep # e.dep}

\* processing package.json fails: it is no JSON, or a version met is no string
PackageFails == ~call[1].json.ok \/ \E e \in Merged : e.version = NotAString

OfManifest(issue, name) ==
    issue.file_path = Path(<<>>, name, IF name = "package" THEN ".json" ELSE ".txt")

\* C14: when processing package.json fails (malformed JSON, or a version that is no
\* string met while iterating), check_dependencies returns no issue of package.json
\* at all, and it still returns the issues of requirements.txt.
C14_FailedManifestYieldsNothing ==
    (ret # <<>> /\ PackageFails) =>
        /\ \A k \in 1..Len(ret[1]) : ~OfManifest(ret[1][k], "package")
        /\ Len(call) = 2 =>
              \E k \in 1..Len(ret[1]) :
                  OfManifest(ret[1][k], "requirements") /\ ret[1][k].line_number = 1

-----------------------------------------------------------------------------
(* Fatal failures.                                                         *)

\* the failures that end a review: the URL is not recognised, git clone exits with
\* a non-zero status, git clone runs out of time, there is no git executable
Fatal == {"invalid url", "failed", "timeout", "no git"}

\* C15: a review ended by a fatal failure has no ReviewResult and ends with an
\* error, and two reviews ended by different fatal failures end with errors of
\* different kinds.
C15_FatalKindsDistinct ==
    /\ \A i \in 1..Len(history) :
          history[i].failure \in Fatal =>
              /\ history[i].result = NoResult
              /\ history[i].kind \in {"ValueError", "Exception"}
    /\ \A i, j \in 1..Len(history) :
          (/\ history[i].failure \in Fatal /\ history[j].failure \in Fatal
           /\ history[i].failure # history[j].failure) =>
              history[i].kind # history[j].kind

-----------------------------------------------------------------------------
(* Two analyses at once: two requests, each with a CodeReviewService of    *)
(* its own, whose steps interleave in any order (two worker processes or   *)
(* threads of the server).  They share only the file system.               *)

\* the names a temporary directory can get, and the analyses each side makes
MaxDirs == 3
MaxRounds == 2

Dirs == 1..MaxDirs

NoDir == [exists |-> FALSE, repo |-> <<>>]
EmptyDir == [exists |-> TRUE, repo |-> <<>>]
ClonedDir(clone_url) == [exists |-> TRUE, repo |-> <<clone_url>>]

\* a variant of mkdtemp that always names the same directory
mkdtemp_fixed(fs) == {1}

\* tempfile.mkdtemp: a directory that did not exist is created, under any free name
mkdtemp(fs) == {d \in Dirs : ~fs[d].exists}

NewService == [pc |-> "idle", temp_dir |-> <<>>, url |-> <<>>, rounds |-> 0]

InitPair ==
    /\ NoPipeline /\ call = <<>> /\ ret = <<>>
    /\ services = [s \in 1..2 |-> NewService]
    /\ tmp = [d \in Dirs |-> NoDir]

\* a request: a new service object (temp_dir is None), and parse_github_url
Analyze(s, url) ==
    /\ services[s].pc = "idle" /\ services[s].rounds < MaxRounds
    /\ services' = [services EXCEPT ![s] =
                      [pc |-> IF parse_github_url(url).ok THEN "mkdtemp" ELSE "cleanup",
                       temp_dir |-> <<>>, url |-> url, rounds |-> @.rounds + 1]]
    /\ UNCHANGED <<pipeline, call, ret, tmp>>

\* clone_repository, its first statement; a directory that is there already would
\* be left as it is
Mkdtemp(s) ==
    /\ services[s].pc = "mkdtemp"
    /\ \E d \in mkdtemp(tmp) :
         /\ tmp' = [tmp EXCEPT ![d] = IF @.exists THEN @ ELSE EmptyDir]
         /\ services' = [services EXCEPT ![s].temp_dir = <<d>>, ![s].pc = "clone"]
    /\ UNCHANGED <<pipeline, call, ret>>

\* clone_repository, the git clone into the directory: it fills it or fails
GitClone(s) ==
    /\ services[s].pc = "clone"
    /\ \/ /\ tmp' = [tmp EXCEPT ![services[s].temp_dir[1]] =
                       ClonedDir(parse_github_url(services[s].url).clone_url)]
          /\ services' = [services EXCEPT ![s].pc = "scan"]
       \/ /\ services' = [services EXCEPT ![s].pc = "cleanup"]
          /\ UNCHANGED tmp
    /\ UNCHANGED <<pipeline, call, ret>>

\* the walk and the checks that read the workspace
Scan(s) ==
    /\ services[s].pc = "scan"
    /\ services' = [services EXCEPT ![s].pc = "cleanup"]
    /\ UNCHANGED <<pipeline, call, ret, tmp>>

\* the finally clause: cleanup() on this service's temp_dir
Cleanup(s) ==
    /\ services[s].pc = "cleanup"
    /\ tmp' = [d \in Dirs |->
                 IF tmp[d].exists /\ d \notin cleanup(services[s].temp_dir,
                                                      {e \in Dirs : tmp[e].exists})
                 THEN NoDir ELSE tmp[d]]
    /\ services' = [services EXCEPT ![s].pc = "idle"]
    /\ UNCHANGED <<pipeline, call, ret>>

NextPair ==
    \E s \in 1..2 :
        \/ \E url \in Urls : Analyze(s, url)
        \/ Mkdtemp(s)
        \/ GitClone(s)
        \/ Scan(s)
        \/ Cleanup(s)

SpecPair == InitPair /\ [][NextPair]_vars

\* the service holds a workspace: from mkdtemp until its cleanup
Holds(s) == services[s].pc \in {"clone", "scan", "cleanup"} /\ services[s].temp_dir # <<>>

\* C16: in every interleaving of two analyses, the workspaces the two hold at the
\* same time are different directories, and while an analysis is scanning, its
\* workspace exists and holds the clone it made, whatever the other analysis has
\* done in between, its cleanup included.
C16_WorkspacesApart ==
    /\ (Holds(1) /\ Holds(2)) => services[1].temp_dir # services[2].temp_dir
    /\ \A s \in 1..2 :
          services[s].pc = "scan" =>
              tmp[services[s].temp_dir[1]] =
                  ClonedDir(parse_github_url(services[s].url).clone_url)

\* one analysis is scanning after the other, which cloned another repository at the
\* same time, has removed its own workspace
C16_Witness ==
    /\ services[1].pc = "scan"
    /\ services[2].pc = "idle" /\ services[2].temp_dir # <<>>
    /\ services[2].url # services[1].url
    /\ ~tmp[services[2].temp_dir[1]].exists
    /\ tmp[services[1].temp_dir[1]].exists

-----------------------------------------------------------------------------
(* The export of stored reviews.                                           *)

\* the reviews of the repository named owner/repo that returned a result
Succeeded(owner, repo) ==
    {i \in 1..Len(history) :
       history[i].kind = "return" /\ history[i].name = <<owner, "/", repo>>}

\* the result of the last of them
LatestOf(owner, repo) ==
    history[CHOOSE i \in Succeeded(owner, repo) :
              \A j \in Succeeded(owner, repo) : j <= i].result[1]

\* the answer the claim expects to an export request
Expected(owner, repo, format) ==
    IF Succeeded(owner, repo) = {}
    THEN [status |-> 404, content |-> <<>>]
    ELSE [status |-> 200,
          content |-> IF format = "markdown"
                      THEN <<generate_markdown_report(LatestOf(owner, repo))>>
                      ELSE <<LatestOf(owner, repo)>>]

\* C17: whatever reviews and exports came before, an export for owner/repo answers
\* 404 if no review of a repository of that name has returned a result, and else
\* 200 with the data of the last such review (as they are, or for format=markdown
\* as the report made from them); it starts no analysis and stores nothing.
C17_ExportServesLatestReview ==
    [][\A name \in ExportNames, format \in {"json", "markdown"} :
          ExportReview(name[1], name[2], format) =>
              /\ response'[1].status = Expected(name[1], name[2], format).status
              /\ response'[1].content = Expected(name[1], name[2], format).content
              /\ UNCHANGED <<runs, pc, disk, temp_dir, clone_started, recent_reviews,
                             history>>]_vars

\* two reviews of octo/repo have returned different data, and the report exported is
\* the one of the second
C17_Witness ==
    /\ Len(history) = 2 /\ Succeeded("octo", "repo") = {1, 2}
    /\ history[1].result # history[2].result
    /\ response = <<Ok(generate_markdown_report(history[2].result[1]))>>

-----------------------------------------------------------------------------
(* The order of the issues and of the file reports.                        *)

Severities == <<"critical", "high", "medium", "low", "info">>

\* the place of a severity in that order
Rank(severity) == CHOOSE r \in 1..Len(Severities) : Severities[r] = severity

OfSeverity(issues, severity) == SelectSeq(issues, LAMBDA issue : issue.severity = severity)

\* the issues are in order of rank, and those of each severity are in the order they
\* have in the list detected
StablySorted(issues, detected) ==
    /\ \A k \in 1..(Len(issues) - 1) :
          Rank(issues[k].severity) <= Rank(issues[k + 1].severity)
    /\ \A r \in 1..Len(Severities) :
          OfSeverity(issues, Severities[r]) = OfSeverity(detected, Severities[r])

\* C18: the issues of a ReviewResult are in non-decreasing order of severity rank
\* (critical, high, medium, low, info), and the issues of one severity come in the
\* order of their detection: file by file in scan order, within a file in the order
\* of the detectors, then the dependency issues.
C18_IssuesStablySorted ==
    Completed => StablySorted(Built.issues, DetectedIssues)

\* the sort moved issues, and issues of two files and of a manifest share a severity
C18_Witness ==
    /\ Returned
    /\ Result.issues # DetectedIssues
    /\ \E r \in 1..Len(Severities) :
          LET same == OfSeverity(Result.issues, Severities[r]) IN
          /\ Cardinality({same[k].file_path : k \in 1..Len(same)}) >= 2
          /\ \E k \in 1..Len(same) : same[k].category = "dependency"
          /\ \E k \in 1..Len(same) : same[k].category # "dependency"

\* The ranking of the file reports, applied to lists of more than 50 reports.

\* the longest list of file reports, and the largest step between issue counts
MaxReports == 52
MaxStep == 3

\* the reports of n files, the k-th with (k * step + offset) % 7 issues
Reports(n, step, offset) ==
    [k \in 1..n |->
       [file_path |-> k, issues_count |-> (k * step + offset) % 7,
        health_score |-> Max(0, 100 - ((k * step + offset) % 7) * 10)]]

ReportLists ==
    {Reports(n, step, offset) :
       n \in {0, 1, 2, 49, 50, 51, MaxReports}, step \in 0..MaxStep, offset \in 0..6}

InitReports == NoPipeline /\ NoPair /\ call \in ReportLists /\ ret = <<>>

RankReports ==
    /\ ret = <<>>
    /\ ret' = <<TopFileReports(call)>>
    /\ UNCHANGED <<pipeline, call, pair>>

SpecReports == InitReports /\ [][RankReports]_vars

\* C19: file_reports holds min(50, number of analysed files) of the reports, each
\* once, in non-increasing order of issues_count, and no report left out has more
\* issues than one that is included.
C19_TopFiftyByIssues ==
    ret # <<>> =>
        /\ Len(ret[1]) = Min(50, Len(call))
        /\ \A k \in 1..Len(ret[1]) : ret[1][k] \in Range(call)
        /\ \A j, k \in 1..Len(ret[1]) : j # k => ret[1][j].file_path # ret[1][k].file_path
        /\ \A k \in 1..(Len(ret[1]) - 1) : ret[1][k].issues_count >= ret[1][k + 1].issues_count
        /\ \A x \in Range(call) \ Range(ret[1]) :
              \A k \in 1..Len(ret[1]) : x.issues_count <= ret[1][k].issues_count

\* reports are left out, and the list given had the larger counts at its end
C19_Witness ==
    /\ ret # <<>> /\ Len(call) = 52 /\ Len(ret[1]) = 50
    /\ call[51].issues_count > call[1].issues_count
    /\ ret[1][1].issues_count > ret[1][50].issues_count
    /\ call[51] \in Range(ret[1])

-----------------------------------------------------------------------------
(* The order of the scan.  os.walk lists the files of the root first, in   *)
(* the order os.listdir gives, which the file system decides; then the     *)
(* subdirectories, in that order too.                                       *)

\* the loop over os.walk from file i on
RECURSIVE WalkFrom(_, _, _)
WalkFrom(files, i, locals) ==
    IF i > Len(files) THEN locals
    ELSE WalkFrom(files, i + 1, Walked(locals, files[i], analyze_file(files[i])))

\* the locals of analyze_repository when the repository-level checks are done, for
\* a clone that succeeded and a git log that printed nothing
Analysed(req, parsed, files, locals) ==
    [NoFrame EXCEPT !.owner = parsed.owner, !.repo_name = parsed.repo,
                    !.target_branch = TargetBranch(req.branch, parsed.branch),
                    !.locals = [locals EXCEPT !.all_issues = @ \o check_dependencies(files)],
                    !.test_metrics = estimate_test_coverage(files),
                    !.readme = check_readme(files),
                    !.git_log = "ok"]

\* analyze_repository from the walk to the return statement
AnalyzeFiles(req, files) ==
    ReviewResult(req, Analysed(req, parse_github_url(req.github_url), files,
                                    WalkFrom(files, 1, Locals)))

\* the orders the walk can list a workspace in: the files of the root come first
ScanOrders(workspace) ==
    {order \in [1..Len(workspace) -> Range(workspace)] :
       /\ Range(order) = Range(workspace)
       /\ \A j, k \in 1..Len(order) :
             (j < k /\ Catalog[order[k]].path.dirs = <<>>) =>
                 Catalog[order[j]].path.dirs = <<>>}

InitOrder ==
    /\ NoPipeline /\ NoPair /\ ret = <<>>
    /\ call \in {[files |-> FilesOf(w), other |-> FilesOf(o)] :
                   w \in Workspaces, o \in UNION {ScanOrders(v) : v \in Workspaces}}
    /\ Range(call.files) = Range(call.other)

\* the same repository analysed in the two orders
AnalyzeBoth ==
    /\ ret = <<>>
    /\ ret' = <<[first |-> AnalyzeFiles([github_url |-> GitHub, branch |-> NoBranch],
                                        call.files),
                 second |-> AnalyzeFiles([github_url |-> GitHub, branch |-> NoBranch],
                                         call.other)]>>
    /\ UNCHANGED <<pipeline, call, pair>>

SpecOrder == InitOrder /\ [][AnalyzeBoth]_vars

\* C20: two analyses of the same files, scanned in different orders, give the same
\* issues list, the same file_reports, the same summary and the same scores.
C20_ScanOrderIrrelevant ==
    ret # <<>> =>
        /\ ret[1].first.issues = ret[1].second.issues
        /\ ret[1].first.file_reports = ret[1].second.file_reports
        /\ ret[1].first.summary = ret[1].second.summary
        /\ ret[1].first.metrics.security_score = ret[1].second.metrics.security_score
        /\ ret[1].first.metrics.quality_score = ret[1].second.metrics.quality_score

-----------------------------------------------------------------------------
(* Severities of the dependency issues.                                    *)

\* no name is in both sections and every version is a string: the merge of the
\* sections loses no entry and the loop over them does not fail
PlainManifest ==
    /\ call[1].json.ok
    /\ \A e \in Entries : e.version # NotAString
    /\ \A d \in Range(call[1].json.dependencies), o \in Range(call[1].json.devDependencies) :
          d.dep # o.dep

\* the requirement lines of the requirements.txt given that carry no version specifier
Specifiers == {"=", "==", "<", ">", ">=", "<=", "~=", "!="}

BareRequirements ==
    IF Len(call) < 2 THEN {}
    ELSE {n \in 1..Len(ReadLines(call[2].content)) :
            /\ Strip(ReadLines(call[2].content)[n]) # <<>>
            /\ Head(Strip(ReadLines(call[2].content)[n])) # "#"
            /\ \A k \in 1..Len(ReadLines(call[2].content)[n]) :
                  ReadLines(call[2].content)[n][k] \notin Specifiers}

\* the issues returned that name the dependency
Naming(dep) == {k \in 1..Len(ret[1]) : OfManifest(ret[1][k], "package")
                                        /\ \E j \in 1..Len(ret[1][k].title) :
                                              ret[1][k].title[j] = dep}

IsDependencyIssue(issue, severity) ==
    issue.category = "dependency" /\ issue.severity = severity

\* C21: an entry of package.json with version "*" or "latest" and a line of
\* requirements.txt without a version specifier each yield a dependency issue of
\* severity high; a version beginning with "^0" yields one of severity medium; an
\* exact version yields none.
C21_UnpinnedIsHigh ==
    (ret # <<>> /\ PlainManifest) =>
        /\ \A e \in Entries :
              /\ e.version \in {<<"*">>, <<"latest">>} =>
                    \E k \in Naming(e.dep) : IsDependencyIssue(ret[1][k], "high")
              /\ e.version = <<"^", "0", ".1">> =>
                    \E k \in Naming(e.dep) : IsDependencyIssue(ret[1][k], "medium")
              /\ e.version = <<"4.17.21">> => Naming(e.dep) = {}
        /\ \A n \in BareRequirements :
              \E k \in 1..Len(ret[1]) :
                  /\ OfManifest(ret[1][k], "requirements") /\ ret[1][k].line_number = n
                  /\ IsDependencyIssue(ret[1][k], "high")

-----------------------------------------------------------------------------
(* Snippets: repositories whose source lines, dependency names and         *)
(* requirement lines are longer than the cap of a snippet.                 *)

GitHubRequest == [github_url |-> GitHub, branch |-> NoBranch]

LinesOverCap ==
    {<<"print", "(", "'ab'", ")">>, <<"print", "(", LONG, ")">>,
     <<IND, "eval", "(", LONG, ",", SP, LONG, ")">>,
     <<IND, IND, IND, IND, IND, "run", "(", LONG, ")">>}

LongSources ==
    {<<File(Path(<<"src">>, "long", ".py"), Text(<<a, b>>), TRUE, NoJson)>> :
       a \in LinesOverCap, b \in LinesOverCap}

LongPackages ==
    {<<>>} \cup
    {<<File(Path(<<>>, "package", ".json"), <<"{", "}">>, TRUE,
            Json(TRUE, <<Dep(dep, version)>>, <<>>))>> :
       dep \in {"lodash", LONG}, version \in {<<"*">>, <<"^", "0", ".1">>, <<"latest", LONG>>}}

LongRequirements ==
    {<<>>} \cup
    {<<File(Path(<<>>, "requirements", ".txt"), Text(<<line>>), TRUE, NoJson)>> :
       line \in {<<"flask">>, <<LONG>>}}

InitSnippet ==
    /\ NoPipeline /\ NoPair /\ ret = <<>>
    /\ call \in {p \o r \o s : p \in LongPackages, r \in LongRequirements, s \in LongSources}

\* analyze_repository on the workspace given, from the walk to the return statement
AnalyzeRepository ==
    /\ ret = <<>>
    /\ ret' = <<AnalyzeFiles(GitHubRequest, call)>>
    /\ UNCHANGED <<pipeline, call, pair>>

SpecSnippet == InitSnippet /\ [][AnalyzeRepository]_vars

\* C22: every issue of a ReviewResult has a code_snippet of at most 100 characters,
\* whichever detector produced it and however long the line, the dependency name or
\* the version is.
C22_SnippetsCapped ==
    ret # <<>> => \A k \in 1..Len(ret[1].issues) : ret[1].issues[k].code_snippet.len <= 100

-----------------------------------------------------------------------------
(* Large files: files whose number of lines straddles the threshold of     *)
(* analyze_file.                                                           *)

\* the largest number of lines of a file
MaxLarge == 502

\* n lines of one kind, the last one ended by a newline or not
LinesOf(line, n, newline) ==
    [i \in 1..(n * (Len(line) + 1) - (IF newline THEN 0 ELSE 1)) |->
       IF i % (Len(line) + 1) = 0 THEN NL ELSE line[i % (Len(line) + 1)]]

LargeFiles ==
    {File(Path(<<"src">>, "big", suffix), LinesOf(line, n, newline), TRUE, NoJson) :
       suffix \in {".py", ".js", ".md"}, line \in {<<"x">>, <<"run", "(", ")">>},
       n \in (MaxLarge - 4)..MaxLarge, newline \in BOOLEAN}

InitLarge == NoPipeline /\ NoPair /\ call \in LargeFiles /\ ret = <<>>

SpecLarge == InitLarge /\ [][AnalyzeFile]_vars

\* the issues of the analysis returned that report a large file
LargeFileIssues ==
    {k \in 1..Len(ret[1][1].issues) : ret[1][1].issues[k].title = <<"Large file">>}

\* C23: analyze_file emits one "Large file" issue when the file has more than 500
\* lines and none otherwise; a file of exactly 500 lines yields none, whether its
\* last line ends with a newline or not.
C23_LargeFileOver500 ==
    ret # <<>> =>
        /\ ret[1] # <<>>
        /\ Cardinality(LargeFileIssues) = IF ReadLinesCount(call.content) > 500 THEN 1 ELSE 0

-----------------------------------------------------------------------------
(* Deep nesting: files whose lines are indented, or open braces, up to and *)
(* beyond the depth detect_deep_nesting reports.                           *)

NestedLines ==
    {<<"x">>, <<>>, <<IND, IND, IND, IND, SP, SP, SP, "x">>,
     <<IND, IND, IND, IND, IND, "x">>, <<IND, IND, IND, IND, IND, IND, "x">>,
     <<IND, IND, IND, IND, IND>>,
     <<"{", "{", "{">>, <<"{", SP, "{">>, <<"}">>, <<"}", "}", "{">>}

\* the largest number of lines of a nested file
MaxNested == 3

NestedTexts == UNION {[1..n -> NestedLines] : n \in 1..MaxNested}

InitNesting ==
    /\ NoPipeline /\ NoPair /\ ret = <<>>
    /\ call \in {[content |-> t, language |-> l] :
                   t \in {JoinLines(ls) : ls \in NestedTexts}
                           \cup {Text(ls) : ls \in NestedTexts},
                   l \in {"python", "javascript"}}

DetectDeepNesting ==
    /\ ret = <<>>
    /\ ret' = <<detect_deep_nesting(call.content, call.language)>>
    /\ UNCHANGED <<pipeline, call, pair>>

SpecNesting == InitNesting /\ [][DetectDeepNesting]_vars

\* the lines of the content given, as split("\n") cuts them
NestedFile == Split(call.content)

\* the braces opened and not closed when line i ends
BraceDepth(i) ==
    Cardinality({<<j, k>> \in (1..i) \X (1..80) :
                   k <= Len(NestedFile[j]) /\ NestedFile[j][k] = "{"})
      - Cardinality({<<j, k>> \in (1..i) \X (1..80) :
                       k <= Len(NestedFile[j]) /\ NestedFile[j][k] = "}"})

\* the blanks a line begins with, in characters
Indentation(line) ==
    CharLen(SubSeq(line, 1, Cardinality({k \in 1..Len(line) :
                                           \A m \in 1..k : line[m] \in WS})))

IsBlank(line) == \A k \in 1..Len(line) : line[k] \in WS

\* the depth of line i as the claim has it
Depth(i) ==
    IF call.language = "python" THEN Indentation(NestedFile[i]) \div 4 ELSE BraceDepth(i)

\* the depth of line i, a blank line of Python keeping the depth of the line of code
\* before it
DepthOfCode(i) ==
    IF call.language # "python" THEN BraceDepth(i)
    ELSE IF \A j \in 1..i : IsBlank(NestedFile[j]) THEN 0
    ELSE Indentation(NestedFile[CHOOSE j \in 1..i :
                                  /\ ~IsBlank(NestedFile[j])
                                  /\ \A m \in (j + 1)..i : IsBlank(NestedFile[m])]) \div 4

\* at most one issue; one when some line is deeper than 4, at the first such line
OneAtFirst(deep) ==
    /\ Len(ret[1]) <= 1
    /\ Len(ret[1]) = 1 <=> deep # {}
    /\ Len(ret[1]) = 1 => /\ ret[1][1].line_number \in deep
                          /\ \A i \in deep : ret[1][1].line_number <= i
                          /\ ret[1][1].title = <<"Deep nesting detected">>

\* C24 as stated: detect_deep_nesting returns at most one issue, one exactly when some
\* line has a depth greater than 4, at the first such line, the depth being the
\* indentation divided by 4 in Python and the running brace depth elsewhere.
C24_DeepNestingAsStated ==
    ret # <<>> => OneAtFirst({i \in 1..Len(NestedFile) : Depth(i) > 4})

\* C24: the same, the depth of a blank line of Python being that of the last line of
\* code before it (0 if there is none).
C24_DeepNestingOnce ==
    ret # <<>> => OneAtFirst({i \in 1..Len(NestedFile) : DepthOfCode(i) > 4})

C24_Witness ==
    /\ ret # <<>> /\ Len(ret[1]) = 1 /\ ret[1][1].line_number = 2
    /\ Cardinality({i \in 1..Len(NestedFile) : DepthOfCode(i) > 4}) = 2

-----------------------------------------------------------------------------
(* Hot files: outputs of git log with more files than hot_files holds, and *)
(* change counts on both sides of the thresholds.                          *)

ChangedNames == <<"a.py", "b.py", "c.py", "d.py", "e.py", "f.py", "g.py", "h.py", "i.py",
                  "j.py", "k.py", "l.py", "m.py">>

\* the largest number of files that are not ignored in an output, and the largest
\* step between the change counts of two files
MaxChanged == 12
MaxChangeStep == 3

\* the changes of the k-th file: between 1 and 12
Changes(k, step, offset) == ((k * step + offset) % 12) + 1

\* the output: an ignored path changed 12 times, then for each file one line per
\* change, a blank line after the lines of each commit
GitLog(n, step, offset) ==
    Repeat(<< <<"node_modules", "x.js">>, <<>> >>, 12)
      \o Flatten([k \in 1..n |->
                    Repeat(<< <<"src", ChangedNames[k]>>, <<>> >>, Changes(k, step, offset))])
      \o << <<"app.min.js">> >>

InitHot ==
    /\ NoPipeline /\ NoPair /\ ret = <<>>
    /\ call \in {[outcome |-> o, log |-> GitLog(n, step, offset)] :
                   o \in {"ok", "failed"}, n \in {0, 1, 9, 10, 11, MaxChanged},
                   step \in 0..MaxChangeStep, offset \in 0..11}

GetGitHotFiles ==
    /\ ret = <<>>
    /\ ret' = <<get_git_hot_files(call.outcome, call.log)>>
    /\ UNCHANGED <<pipeline, call, pair>>

SpecHot == InitHot /\ [][GetGitHotFiles]_vars

\* the paths of the output that are not ignored, and the lines each has
Changed == {call.log[i] : i \in {j \in 1..Len(call.log) :
                                   call.log[j] # <<>> /\ ~should_ignore(call.log[j])}}

ChangeCount(path) == Cardinality({i \in 1..Len(call.log) : call.log[i] = path})

Included == {ret[1][k].file : k \in 1..Len(ret[1])}

StatusOf(count) == IF count > 10 THEN "hot" ELSE IF count > 5 THEN "warm" ELSE "normal"

\* C25: hot_files has at most 10 entries, in non-increasing order of change count; no
\* path left out that is not ignored has more changes than one that is in; and an
\* entry is hot when its count is above 10, warm when above 5, normal otherwise.
C25_HotFilesTopTen ==
    ret # <<>> =>
        /\ Len(ret[1]) <= 10
        /\ \A k \in 1..Len(ret[1]) :
              /\ ret[1][k].file \in Changed
              /\ ret[1][k].changes = ChangeCount(ret[1][k].file)
              /\ ret[1][k].status = StatusOf(ret[1][k].changes)
        /\ \A j, k \in 1..Len(ret[1]) : j < k => ret[1][j].changes >= ret[1][k].changes
        /\ \A p \in Changed \ Included :
              \A k \in 1..Len(ret[1]) : ChangeCount(p) <= ret[1][k].changes

C25_Witness ==
    /\ ret # <<>> /\ Len(ret[1]) = 10
    /\ Cardinality(Changed) = 12
    /\ {ret[1][k].status : k \in 1..10} = {"hot", "warm", "normal"}
    /\ \E p \in Changed \ Included : ChangeCount(p) < ret[1][10].changes
    /\ ChangeCount(<<"node_modules", "x.js">>) = 12

-----------------------------------------------------------------------------
(* The order of the recommendations.                                       *)

\* the rules in the order they are evaluated
RuleOrder == <<"critical", "high", "hardcoded secrets", "test coverage", "README",
               "complex functions", "long functions", "Python tooling", "JS/TS tooling">>

\* the rule fires for the arguments of the call
Fires(rule) ==
    CASE rule = "critical" -> call.critical > 0
      [] rule = "high" -> call.high > 0
      [] rule = "hardcoded secrets" -> call.has_hardcoded
      [] rule = "test coverage" -> call.coverage.test_lines * 200 < 60 * call.coverage.source_lines
      [] rule = "README" -> call.readme_score < 50
      [] rule = "complex functions" -> call.complex_functions > 5
      [] rule = "long functions" -> call.long_functions > 5
      [] rule = "Python tooling" -> "python" \in call.languages
      [] rule = "JS/TS tooling" -> call.languages \cap {"javascript", "typescript"} # {}

\* the rule a recommendation comes from: the test coverage rule has two messages
RuleOf(rec) == IF rec.rule = "test coverage low" THEN "test coverage" ELSE rec.rule

FiredRules == SelectSeq(RuleOrder, Fires)

\* C26: the recommendations are the first 8 of the messages of the rules that fired, in
\* the order critical, high, hardcoded secrets, test coverage, README, complex functions,
\* long functions, Python tooling, JS/TS tooling; the positive fallback message is in
\* the list when no rule fired and only then, and is then its only entry.
C26_RecommendationsInRuleOrder ==
    ret # <<>> =>
        /\ FiredRules # <<>> =>
              [k \in 1..Len(ret[1]) |-> RuleOf(ret[1][k])]
                 = SubSeq(FiredRules, 1, Min(8, Len(FiredRules)))
        /\ (\E k \in 1..Len(ret[1]) : ret[1][k].rule = "healthy") <=> FiredRules = <<>>
        /\ FiredRules = <<>> => Len(ret[1]) = 1

C26_Witness ==
    /\ ret # <<>> /\ Len(FiredRules) = 9 /\ Len(ret[1]) = 8
    /\ ret[1][1].rule = "critical" /\ ret[1][4].rule = "test coverage low"
    /\ ret[1][8].rule = "Python tooling"

-----------------------------------------------------------------------------
(* Files of no language: a workspace analysed with and without a file      *)
(* whose extension is not in the language map.                             *)

UnmappedFiles ==
    {File(Path(<<"src">>, "notes", ".txt"), Text(<< <<"eval", "(", "x", ")">>, <<"x">> >>),
          TRUE, NoJson),
     File(Path(<<"tests">>, "data", ".csv"), Text(<< <<"1">>, <<"2">>, <<"3">> >>),
          TRUE, NoJson),
     File(Path(<<"web">>, "Makefile", ""), Text(<< <<"all", ":">> >>), TRUE, NoJson)}

InitUnmapped ==
    /\ NoPipeline /\ NoPair /\ ret = <<>>
    /\ call \in {[files |-> FilesOf(w), other |-> FilesOf(w) \o <<u>>] :
                   w \in Workspaces, u \in UnmappedFiles}

SpecUnmapped == InitUnmapped /\ [][AnalyzeBoth]_vars

\* C27: a file whose extension is not in the language map changes nothing in the
\* ReviewResult: total_files, total_lines, languages, issues, file_reports, the test
\* and source line counts and the test coverage estimate are those of the workspace
\* without it.
C27_UnmappedFileCountsNowhere ==
    ret # <<>> =>
        /\ ret[1].second.total_files = ret[1].first.total_files
        /\ ret[1].second.total_lines = ret[1].first.total_lines
        /\ ret[1].second.languages = ret[1].first.languages
        /\ ret[1].second.issues = ret[1].first.issues
        /\ ret[1].second.file_reports = ret[1].first.file_reports
        /\ ret[1].second.metrics.test_metrics = ret[1].first.metrics.test_metrics
        /\ ret[1].second.test_coverage_estimate = ret[1].first.test_coverage_estimate

-----------------------------------------------------------------------------
(* Ignored paths: repositories with directories and files on the ignore    *)
(* list, and with names that only contain a name of the list.              *)

PrintLine == <<"print", "(", "x", ")">>

WalkedFiles ==
    <<File(Path(<<>>, "app", ".py"), Text(<<PrintLine>>), TRUE, NoJson),
      File(Path(<<>>, "app.min", ".js"), Text(<<PrintLine>>), TRUE, NoJson),
      File(Path(<<".github", "workflows">>, "ci", ".yml"), Text(<<PrintLine>>), TRUE, NoJson),
      File(Path(<<"build">>, "out", ".py"), Text(<<PrintLine>>), TRUE, NoJson),
      File(Path(<<"node_modules", "dep">>, "index", ".js"), Text(<<PrintLine>>), TRUE, NoJson),
      File(Path(<<"rebuild">>, "app", ".py"), Text(<<PrintLine>>), TRUE, NoJson),
      File(Path(<<"src">>, "app", ".py"), Text(<<PrintLine>>), TRUE, NoJson),
      File(Path(<<"src">>, "notes", ".txt"), Text(<<PrintLine>>), TRUE, NoJson)>>

InitWalk ==
    /\ NoPipeline /\ NoPair /\ ret = <<>>
    /\ call \in {SelectSeq(WalkedFiles, LAMBDA f : f \in S) : S \in SUBSET Range(WalkedFiles)}

\* the loop over os.walk of analyze_repository, on the workspace given
WalkRepository ==
    /\ ret = <<>>
    /\ ret' = <<WalkFrom(call, 1, Locals)>>
    /\ UNCHANGED <<pipeline, call, pair>>

SpecWalk == InitWalk /\ [][WalkRepository]_vars

\* the files analysed: those with a file report
AnalysedPaths == {ret[1].file_reports[k].file_path : k \in 1..Len(ret[1].file_reports)}

\* the name is on the ignore list
OnIgnoreList(name) ==
    \E k \in 1..Len(IGNORE_PATTERNS) :
        WildcardSuffix(IGNORE_PATTERNS[k]) = None /\ name = IGNORE_PATTERNS[k]

\* the name ends with one of the wildcard suffixes of the list
HasIgnoredSuffix(name) ==
    \E k \in 1..Len(IGNORE_PATTERNS) :
        /\ WildcardSuffix(IGNORE_PATTERNS[k]) # None
        /\ <<name, WildcardSuffix(IGNORE_PATTERNS[k])>> \in Ends

\* C28: no file below a directory whose name is on the ignore list is analysed, and a
\* file with a mapped extension is left out only if a component of its path is on the
\* ignore list or its name ends with a wildcard suffix of the list.
C28_OnlyListedPathsIgnored ==
    ret # <<>> =>
        \A f \in Range(call) :
            /\ (\E d \in 1..Len(f.path.dirs) : OnIgnoreList(f.path.dirs[d]))
                  => f.path \notin AnalysedPaths
            /\ (get_language(f.path) # None /\ f.path \notin AnalysedPaths)
                  => \/ \E c \in 1..Len(Components(f.path)) :
                           OnIgnoreList(Components(f.path)[c])
                     \/ HasIgnoredSuffix(f.path.stem \o f.path.suffix)

-----------------------------------------------------------------------------
(* Branches: remotes with different default branches, cloned with and      *)
(* without a branch asked for.                                             *)

\* a remote: its default branch and the other branches it has
Remotes == [default : {"main", "master", "dev"}, others : SUBSET {"dev", "release"}]

BranchRequests ==
    [github_url : {GitHub, GitHub \o <<".git">>, GitHub \o <<"/", "tree", "/", "dev">>},
     branch : {NoBranch, <<"dev">>, <<"release">>}]

\* git clone [-b branch]: the branch checked out, none if the remote lacks it
CheckedOut(branch, r) ==
    IF branch = NoBranch THEN <<r.default>>
    ELSE IF branch[1] \in {r.default} \cup r.others THEN branch ELSE NoBranch

InitBranch ==
    /\ NoPipeline /\ NoPair /\ ret = <<>>
    /\ call \in [request : BranchRequests, remote : Remotes]

\* the branch clone_repository checks out for the request, and the result of the
\* analysis of the clone (an empty repository) if there is one
Cloned(req, parsed, r) == CheckedOut(CloneBranch(req.branch, parsed.branch), r)

CloneAndAnalyze ==
    /\ ret = <<>>
    /\ ret' = <<[cloned |-> Cloned(call.request, parse_github_url(call.request.github_url),
                                   call.remote),
                 result |-> IF Cloned(call.request,
                                      parse_github_url(call.request.github_url),
                                      call.remote) = NoBranch
                            THEN NoResult
                            ELSE <<AnalyzeFiles(call.request, <<>>)>>]>>
    /\ UNCHANGED <<pipeline, call, pair>>

SpecBranch == InitBranch /\ [][CloneAndAnalyze]_vars

\* the /tree/<branch> segment of the URL of the request
TreeSegment ==
    IF \E k \in 1..(Len(call.request.github_url) - 2) :
          call.request.github_url[k] = "tree"
    THEN <<call.request.github_url[Len(call.request.github_url)]>>
    ELSE NoBranch

\* the branch the claim has cloned
BranchAsked ==
    IF call.request.branch # NoBranch THEN call.request.branch
    ELSE IF TreeSegment # NoBranch THEN TreeSegment
    ELSE <<call.remote.default>>

\* C29: the branch cloned is the branch argument if given, else the /tree/<branch>
\* segment of the URL, else the default branch of the remote, and the branch of the
\* ReviewResult is the branch that was cloned.
C29_ResultNamesClonedBranch ==
    (ret # <<>> /\ ret[1].result # NoResult) =>
        /\ ret[1].cloned = BranchAsked
        /\ ret[1].result[1].branch = ret[1].cloned

-----------------------------------------------------------------------------
(* Failed reviews and the stored reviews.                                  *)

\* the answer of an export request has the status and the content the claim expects
\* from the reviews that ended before
Answers(answer, expected) ==
    answer.status = expected.status /\ answer.content = expected.content

\* C30: a review that fails (invalid URL, clone failure, an exception during the
\* analysis) leaves recent_reviews as it was under every key, and an export answers
\* afterwards what the reviews that returned before it make it answer.
C30_FailedReviewKeepsCache ==
    [][(Finally /\ pending.kind # "return") =>
          /\ recent_reviews' = recent_reviews
          /\ \A name \in ExportNames, format \in {"json", "markdown"} :
                Answers(export_review(recent_reviews', name[1], name[2], format),
                        Expected(name[1], name[2], format))]_vars

\* a review of octo/repo returned, a later review of the same repository failed after
\* its clone, and the first review is still the one stored
C30_Witness ==
    /\ pc = "idle" /\ Len(history) = 2
    /\ history[1].kind = "return" /\ history[1].name = <<"octo", "/", "repo">>
    /\ history[2].name = <<"octo", "/", "repo">> /\ history[2].failure = "raised"
    /\ DOMAIN recent_reviews = {<<"octo", "/", "repo">>}
    /\ recent_reviews[<<"octo", "/", "repo">>] = history[1].result[1]

====
